---- MODULE Spec2Model ----
(***************************************************************************)
(* The fault-and-interrupt core of lib/runtime-core/src/fault.rs:          *)
(* the thread-local unwind frame (catch_unsafe_unwind/begin_unsafe_unwind), *)
(* the trap dispatcher (signal_trap_handler), the SIGINT handler with its  *)
(* chained previous disposition, the interrupt sentinel page and the       *)
(* one-shot installation of the signal handlers.                           *)
(***************************************************************************)
EXTENDS Integers, Sequences, FiniteSets, TLC

(* ------------------------------ bounds -------------------------------- *)
\* Threads of the process (thread 1 is the guest-entering worker of Spec).
NumThreads == 2
\* Deepest nesting of catch_unsafe_unwind calls explored on one thread.
MaxDepth == 2
\* Longest CURRENT_CODE_VERSIONS vector explored.
MaxVersions == 1
\* SIGINTs the environment sends in one run.
MaxSigints == 2
\* sigint_handler executions that may be in progress at once (on different threads).
NumSigCtx == 1
\* Runs of the body of install_sighandler explored (the code makes one).
MaxInstalls == 2
\* Highest code address of the modelled guest code.
MaxAddr == 3
\* allocate_and_run is called with sizes of up to this many 4096-byte pages
MaxPages == 3
\* Longest CURRENT_CODE_VERSIONS vector explored with overlapping modules.
MaxNested == 2
\* Deepest nesting of with_ctx calls explored.
MaxCtx == 2

Threads == 1..NumThreads
Addrs == 0..MaxAddr

(* --------------------------- signals, values --------------------------- *)
TrapSignals == {"SIGFPE", "SIGILL", "SIGSEGV", "SIGBUS", "SIGTRAP"}
Signals == TrapSignals \cup {"SIGINT"}

\* nix SigHandler variants an application may have had installed for SIGINT.
PrevDispositions == {"SigDfl", "SigIgn", "Handler", "SigAction"}

\* Fault addresses the kernel reports: the sentinel page or anything else.
FaultAddrs == {"sentinel", "other"}
get_wasm_interrupt_signal_mem == "sentinel"

\* RuntimeError values, <<tag, n>>.
NoPayload == <<"None", 0>>
UserErrors == {<<"User", 1>>, <<"User", 2>>}
InstanceImage == <<"InstanceImage", 0>>
FailedWithNoError == <<"FailedWithNoError", 0>>
TrapCode(code) == <<"TrapCode", code>>

\* *mut vm::Ctx values: ::std::ptr::null_mut() and the contexts of two instances.
null_mut == "null"
Ctxs == {"ctx1", "ctx2"}

\* Values f may return.
RetVals == {<<"Val", 42>>, <<"Val", 7>>}

\* Option<BreakpointMap> values handed to catch_unsafe_unwind: no map, or a map
\* with a callback at address 0 that returns Ok(()) and one at address 1 that
\* returns Err.
BreakpointMaps == {"None", "bk"}

\* bkpt_map.and_then(|x| x.get(&ip)).map(|x| x(BreakpointInfo{..}))
Callback(bk, ip) ==
  IF bk = "None" \/ ip \notin {0, 1} THEN <<"absent", NoPayload>>
  ELSE IF ip = 0 THEN <<"Ok", NoPayload>>
  ELSE <<"Err", <<"User", 1>>>>

(* --------------------------- code versions ----------------------------- *)
\* CodeVersion values an embedder pushes: base, msm.total_size and the module.
\* Module "m1" has 2-byte inline breakpoints and an exception table, "m2" has
\* neither an inline-breakpoint encoding nor an exception table.
CodeVersions ==
  { [base |-> 0, total_size |-> 4, module |-> "m1"],
    [base |-> 1, total_size |-> 3, module |-> "m2"] }

\* The same with a third module over the range of "m2": "m3" has 1-byte inline
\* breakpoints and no exception table.
OverlappingVersions ==
  CodeVersions \cup { [base |-> 1, total_size |-> 3, module |-> "m3"] }

\* runnable_module.get_inline_breakpoint_size(ARCH): <<is_some, size>>
get_inline_breakpoint_size(m) ==
  IF m = "m1" THEN <<TRUE, 2>>
  ELSE IF m = "m3" THEN <<TRUE, 1>>
  ELSE <<FALSE, 0>>

\* runnable_module.read_inline_breakpoint(ARCH, bytes at ip): the code of "m1"
\* decodes as an inline breakpoint at addresses 0 and 1 only, that of "m3" at
\* addresses 1, 2 and 3.
read_inline_breakpoint(m, ip) ==
  \/ m = "m1" /\ ip \in {0, 1}
  \/ m = "m3" /\ ip \in {1, 2, 3}

\* runnable_module.get_exception_table(): <<is_some, offset_to_code>>, the table
\* as a set of <<offset, code>> pairs.
get_exception_table(m) ==
  IF m = "m1" THEN <<TRUE, {<<2, 5>>}>> ELSE <<FALSE, {}>>

(* ------------------------------- state --------------------------------- *)
VARIABLES
  proc,                        \* "running", or how the process ended
  INSTALL_SIGHANDLER,          \* the Once: "new", "running", "done"
  disposition,                 \* the kernel's installed action per signal
  SIGINT_SYS_HANDLER,          \* Option<SigAction>: "None" or the captured action
  INTERRUPT_SIGNAL_DELIVERED,  \* the AtomicBool
  INTERRUPT_SIGNAL_MEM,        \* protection of the sentinel page: "RW" or "NONE"
  sigint_pc,                   \* sigint_handler executions in progress, per position
  UNWIND,                      \* per thread: Option<UnwindInfo>
  stack,                       \* per thread: the live catch_unsafe_unwind activations
  pc,                          \* per thread: position of the thread
  WAS_SIGINT_TRIGGERED,        \* per thread: the Cell<bool>
  CURRENT_CODE_VERSIONS,       \* per thread: Vec<CodeVersion>
  prev_local,                  \* per thread: sigaction(SIGINT)'s result in install_sighandler
  result,                      \* per thread: what the last catch_unsafe_unwind returned
  fend,                        \* per thread: how the running f ended (observation)
  fault,                       \* per thread: the fault the dispatcher is handling
  ARCH,                        \* target_arch of the build
  alloc,                       \* the last call of allocate_and_run by host code
  fault_info,                  \* the last call of get_fault_info: its context and result
  CURRENT_CTX,                 \* per thread: the *mut vm::Ctx
  with_ctx_calls,              \* per thread: the live with_ctx activations
  h                            \* history counters (observation only)

gvars == <<proc, INSTALL_SIGHANDLER, disposition, SIGINT_SYS_HANDLER,
           INTERRUPT_SIGNAL_DELIVERED, INTERRUPT_SIGNAL_MEM, sigint_pc, ARCH, alloc,
           fault_info>>
tvars == <<UNWIND, stack, pc, WAS_SIGINT_TRIGGERED, CURRENT_CODE_VERSIONS,
           prev_local, result, fend, fault>>
cvars == <<CURRENT_CTX, with_ctx_calls>>
vars == <<gvars, tvars, cvars, h>>

\* Option<UnwindInfo>: None
NoFrame == [some |-> FALSE, jmpbuf |-> 0, breakpoints |-> "None", payload |-> NoPayload]

NoResult == [kind |-> "None", val |-> NoPayload, how |-> "none", arg |-> NoPayload,
             restored |-> TRUE, sigint |-> FALSE]
NoEnd == [how |-> "none", val |-> NoPayload]

\* No fault is being handled on the thread.
NoFault == [signum |-> "None", faulting_addr |-> "other", ip |-> 0, ctx_ip |-> 0,
            phase |-> 0, heap |-> FALSE]

\* allocate_and_run has not been called by host code.
NoAlloc == [size |-> 0, f |-> NoPayload, asserted |-> FALSE, calls |-> 0,
            ret |-> NoPayload, heap |-> FALSE]

\* get_fault_info has not been called.
NoFaultInfo == [os |-> "None"]

InitWith(prevs, archs) ==
  /\ proc = "running"
  /\ fault_info = NoFaultInfo
  /\ ARCH \in archs
  /\ alloc = NoAlloc
  /\ fault = [t \in Threads |-> NoFault]
  /\ INSTALL_SIGHANDLER = "new"
  /\ \E d \in prevs :
       /\ disposition = [s \in Signals |-> IF s = "SIGINT" THEN d ELSE "SigDfl"]
       /\ h = [init |-> d, installRuns |-> 0, sigactions |-> 0, sigints |-> 0,
               prevCalls |-> 0, installers |-> {}, ensured |-> {}, prot |-> "none",
               open |-> [t \in Threads |-> 0]]
  /\ SIGINT_SYS_HANDLER = "None"
  /\ INTERRUPT_SIGNAL_DELIVERED = FALSE
  /\ INTERRUPT_SIGNAL_MEM = "RW"
  /\ sigint_pc = [arm |-> 0, chain |-> 0]
  /\ UNWIND = [t \in Threads |-> NoFrame]
  /\ stack = [t \in Threads |-> <<>>]
  /\ pc = [t \in Threads |-> "run"]
  /\ WAS_SIGINT_TRIGGERED = [t \in Threads |-> FALSE]
  /\ CURRENT_CODE_VERSIONS = [t \in Threads |-> <<>>]
  /\ prev_local = [t \in Threads |-> "None"]
  /\ result = [t \in Threads |-> NoResult]
  /\ fend = [t \in Threads |-> NoEnd]
  /\ CURRENT_CTX = [t \in Threads |-> null_mut]
  /\ with_ctx_calls = [t \in Threads |-> <<>>]

\* The x86_64 build, any previous SIGINT disposition.
Init == InitWith(PrevDispositions, {"x86_64"})

Running(t) == proc = "running" /\ pc[t] = "run"

(* --------------------------- the unwind frame --------------------------- *)
\* A catch_unsafe_unwind that does not keep the previous frame.
SavedFrame_forgets(slot) == NoFrame

\* let old = (*unwind).take();
SavedFrame(slot) == slot

\* *unwind = Some(UnwindInfo { jmpbuf, breakpoints, payload: None }); setjmp(jmpbuf).
\* The jump buffer records the activation: its depth on the thread's stack.
FreshFrame(depth, bk) ==
  [some |-> TRUE, jmpbuf |-> depth, breakpoints |-> bk, payload |-> NoPayload]

\* A catch_unsafe_unwind that empties the slot on exit instead of restoring it.
RestoredFrame_empties(old) == NoFrame

\* *unwind = old;
RestoredFrame(old) == old

\* A begin_unsafe_unwind that jumps without storing the error.
StorePayload_skipped(e) == NoPayload

\* inner.payload = Some(e);
StorePayload(e) == e

\* was_sigint_triggered_fault()
was_sigint_triggered_fault(t) == WAS_SIGINT_TRIGGERED[t]

Top(t) == stack[t][Len(stack[t])]
Pop(t) == SubSeq(stack[t], 1, Len(stack[t]) - 1)

\* A with_breakpoint_map that hands over the map of the outermost active call.
with_breakpoint_map_outermost(t) ==
  IF Len(stack[t]) >= 2 THEN stack[t][2].entry.breakpoints ELSE UNWIND[t].breakpoints

\* with_breakpoint_map: f(inner.breakpoints.as_ref()) for the frame in the slot.
with_breakpoint_map(t) == UNWIND[t].breakpoints

\* catch_unsafe_unwind up to the first return of setjmp (setjmp returns 0, f starts).
catch_unsafe_unwind(t, bk) ==
  /\ Running(t)
  /\ Len(stack[t]) < MaxDepth
  /\ stack' = [stack EXCEPT ![t] =
                 Append(@, [old |-> SavedFrame(UNWIND[t]), entry |-> UNWIND[t]])]
  /\ UNWIND' = [UNWIND EXCEPT ![t] = FreshFrame(Len(stack[t]) + 1, bk)]
  /\ h' = [h EXCEPT !.open[t] = @ + 1]
  /\ UNCHANGED <<gvars, pc, WAS_SIGINT_TRIGGERED, CURRENT_CODE_VERSIONS,
                 prev_local, result, fend>>
  /\ UNCHANGED fault
  /\ UNCHANGED cvars

\* let ret = f();  f returns v to the innermost catch_unsafe_unwind. Every
\* with_ctx that f called has returned by then.
f_returns(t, v) ==
  /\ Running(t)
  /\ Len(stack[t]) > 0
  /\ \A i \in DOMAIN with_ctx_calls[t] : with_ctx_calls[t][i].depth < Len(stack[t])
  /\ pc' = [pc EXCEPT ![t] = "returned"]
  /\ fend' = [fend EXCEPT ![t] = [how |-> "ret", val |-> v]]
  /\ UNCHANGED <<gvars, UNWIND, stack, WAS_SIGINT_TRIGGERED, CURRENT_CODE_VERSIONS,
                 prev_local, result, h>>
  /\ UNCHANGED fault
  /\ UNCHANGED cvars

\* the else branch after f(): *unwind = old; Ok(ret)
catch_unsafe_unwind_ok(t) ==
  /\ proc = "running"
  /\ pc[t] = "returned"
  /\ UNWIND' = [UNWIND EXCEPT ![t] = RestoredFrame(Top(t).old)]
  /\ stack' = [stack EXCEPT ![t] = Pop(t)]
  /\ pc' = [pc EXCEPT ![t] = "caught"]
  /\ result' = [result EXCEPT ![t] =
                  [kind |-> "Ok", val |-> fend[t].val, how |-> fend[t].how,
                   arg |-> fend[t].val,
                   restored |-> (RestoredFrame(Top(t).old) = Top(t).entry),
                   sigint |-> was_sigint_triggered_fault(t)]]
  /\ fend' = [fend EXCEPT ![t] = NoEnd]
  /\ h' = [h EXCEPT !.open[t] = @ - 1]
  /\ UNCHANGED <<gvars, WAS_SIGINT_TRIGGERED, CURRENT_CODE_VERSIONS, prev_local>>
  /\ UNCHANGED fault
  /\ UNCHANGED cvars

(* ------------------------------ with_ctx -------------------------------- *)
\* longjmp to the jump buffer of the catch_unsafe_unwind activation at depth
\* jmpbuf: the with_ctx activations entered inside it are gone, none of them ran
\* its `*addr = old`. A with_ctx activation records the catch_unsafe_unwind
\* depth it was entered at; `left` observes that a with_ctx nested in its cb was
\* left by a jump.
longjmp(calls, jmpbuf) ==
  LET kept == SelectSeq(calls, LAMBDA c : c.depth < jmpbuf)
  IN IF Len(kept) = Len(calls) THEN calls
     ELSE [i \in DOMAIN kept |-> [kept[i] EXCEPT !.left = TRUE]]

\* A with_ctx that leaves the pointer as cb left it.
CtxAfterCb_kept(old, cur) == cur

\* let ret = cb(); *addr = old;
CtxAfterCb(old, cur) == old

\* with_ctx up to the call of cb: let old = *addr; *addr = ctx;
with_ctx(t, ctx) ==
  /\ Running(t)
  /\ Len(with_ctx_calls[t]) < MaxCtx
  /\ with_ctx_calls' = [with_ctx_calls EXCEPT ![t] =
                          Append(@, [old |-> CURRENT_CTX[t], ctx |-> ctx,
                                     depth |-> Len(stack[t]), left |-> FALSE])]
  /\ CURRENT_CTX' = [CURRENT_CTX EXCEPT ![t] = ctx]
  /\ UNCHANGED <<gvars, tvars, h>>

\* cb returned to the innermost with_ctx: *addr = old; ret. Every
\* catch_unsafe_unwind that cb called has returned by then.
with_ctx_returns(t) ==
  /\ Running(t)
  /\ Len(with_ctx_calls[t]) > 0
  /\ LET call == with_ctx_calls[t][Len(with_ctx_calls[t])]
     IN /\ call.depth = Len(stack[t])
        /\ CURRENT_CTX' = [CURRENT_CTX EXCEPT ![t] = CtxAfterCb(call.old, @)]
  /\ with_ctx_calls' = [with_ctx_calls EXCEPT ![t] = SubSeq(@, 1, Len(@) - 1)]
  /\ UNCHANGED <<gvars, tvars, h>>

\* A begin_unsafe_unwind that takes the frame without looking whether there is one.
SlotPresent_unchecked(slot) == TRUE

\* (*unwind).as_mut().expect("not within a catch_unsafe_unwind scope")
SlotPresent(slot) == slot.some

\* The variables begin_unsafe_unwind decides.
uvars == <<proc, UNWIND, stack, pc, fend, with_ctx_calls>>

\* begin_unsafe_unwind(e): store the payload in the current frame and longjmp to
\* its jump buffer. The frames above the target are left without running anything.
\* A jump buffer of an activation that has returned is undefined behaviour.
begin_unsafe_unwind(t, e) ==
  IF ~SlotPresent(UNWIND[t])
  THEN /\ proc' = "panicked"
       /\ UNCHANGED <<UNWIND, stack, pc, fend, with_ctx_calls>>
  ELSE IF UNWIND[t].jmpbuf \in 1..Len(stack[t])
  THEN /\ UNWIND' = [UNWIND EXCEPT ![t].payload = StorePayload(e)]
       /\ stack' = [stack EXCEPT ![t] = SubSeq(@, 1, UNWIND[t].jmpbuf)]
       /\ with_ctx_calls' = [with_ctx_calls EXCEPT ![t] = longjmp(@, UNWIND[t].jmpbuf)]
       /\ pc' = [pc EXCEPT ![t] = "landed"]
       /\ fend' = [fend EXCEPT ![t] = [how |-> "unwind", val |-> e]]
       /\ proc' = proc
  ELSE /\ proc' = "ub"
       /\ UNCHANGED <<UNWIND, stack, pc, fend, with_ctx_calls>>

\* A host function called from f raises an error: begin_unsafe_unwind(Box::new(e)).
host_unwind(t, e) ==
  /\ Running(t)
  /\ begin_unsafe_unwind(t, e)
  /\ UNCHANGED <<INSTALL_SIGHANDLER, disposition, SIGINT_SYS_HANDLER,
                 INTERRUPT_SIGNAL_DELIVERED, INTERRUPT_SIGNAL_MEM, sigint_pc,
                 WAS_SIGINT_TRIGGERED, CURRENT_CODE_VERSIONS, prev_local, result, h>>
  /\ UNCHANGED <<ARCH, alloc, fault_info>>
  /\ UNCHANGED fault
  /\ UNCHANGED CURRENT_CTX

\* setjmp returned non-zero: payload.take().unwrap(); *unwind = old; Err(*ret)
catch_unsafe_unwind_err(t) ==
  /\ proc = "running"
  /\ pc[t] = "landed"
  /\ IF ~UNWIND[t].some \/ UNWIND[t].payload = NoPayload
     THEN /\ proc' = "panicked"
          /\ UNCHANGED <<UNWIND, stack, pc, result, fend, fault, h>>
     ELSE /\ UNWIND' = [UNWIND EXCEPT ![t] = RestoredFrame(Top(t).old)]
          /\ fault' = [fault EXCEPT ![t] = NoFault]
          /\ stack' = [stack EXCEPT ![t] = Pop(t)]
          /\ pc' = [pc EXCEPT ![t] = "caught"]
          /\ result' = [result EXCEPT ![t] =
                          [kind |-> "Err", val |-> UNWIND[t].payload,
                           how |-> fend[t].how, arg |-> fend[t].val,
                           restored |-> (RestoredFrame(Top(t).old) = Top(t).entry),
                           sigint |-> was_sigint_triggered_fault(t)]]
          /\ fend' = [fend EXCEPT ![t] = NoEnd]
          /\ h' = [h EXCEPT !.open[t] = @ - 1]
          /\ proc' = proc
  /\ UNCHANGED <<INSTALL_SIGHANDLER, disposition, SIGINT_SYS_HANDLER,
                 INTERRUPT_SIGNAL_DELIVERED, INTERRUPT_SIGNAL_MEM, sigint_pc,
                 WAS_SIGINT_TRIGGERED, CURRENT_CODE_VERSIONS, prev_local>>
  /\ UNCHANGED <<ARCH, alloc, fault_info>>
  /\ UNCHANGED cvars

\* The caller has the Result of catch_unsafe_unwind (and may read
\* was_sigint_triggered_fault()); it goes on and the Result is dropped.
caller_resumes(t) ==
  /\ proc = "running"
  /\ pc[t] = "caught"
  /\ pc' = [pc EXCEPT ![t] = "run"]
  /\ result' = [result EXCEPT ![t] = NoResult]
  /\ UNCHANGED <<gvars, UNWIND, stack, WAS_SIGINT_TRIGGERED, CURRENT_CODE_VERSIONS,
                 prev_local, fend, h>>
  /\ UNCHANGED fault
  /\ UNCHANGED cvars

(* --------------------------- code versions ------------------------------ *)
\* A pop that takes the oldest element.
vec_pop_front(vec) ==
  IF Len(vec) = 0 THEN [ret |-> "None", rest |-> vec]
  ELSE [ret |-> vec[1], rest |-> Tail(vec)]

\* Vec::push
vec_push(vec, v) == Append(vec, v)

\* Vec::pop: the Option returned and the vector left.
vec_pop(vec) ==
  IF Len(vec) = 0 THEN [ret |-> "None", rest |-> vec]
  ELSE [ret |-> vec[Len(vec)], rest |-> SubSeq(vec, 1, Len(vec) - 1)]

\* CURRENT_CODE_VERSIONS.with(|x| x.borrow_mut().push(version))
push_code_version(t, v) ==
  /\ Running(t)
  /\ CURRENT_CODE_VERSIONS' = [CURRENT_CODE_VERSIONS EXCEPT ![t] = vec_push(@, v)]
  /\ UNCHANGED <<gvars, UNWIND, stack, pc, WAS_SIGINT_TRIGGERED, prev_local,
                 result, fend, h>>
  /\ UNCHANGED fault
  /\ UNCHANGED cvars

\* CURRENT_CODE_VERSIONS.with(|x| x.borrow_mut().pop())
pop_code_version(t) ==
  /\ Running(t)
  /\ CURRENT_CODE_VERSIONS' = [CURRENT_CODE_VERSIONS EXCEPT ![t] = vec_pop(@).rest]
  /\ UNCHANGED <<gvars, UNWIND, stack, pc, WAS_SIGINT_TRIGGERED, prev_local,
                 result, fend, h>>
  /\ UNCHANGED fault
  /\ UNCHANGED cvars

(* --------------------------- the sentinel page -------------------------- *)
\* An mprotect that leaves the page's protection as it was.
mprotect_ignored(old, prot) == old

\* An mprotect that cannot give back an access it has taken away.
mprotect_sticky(old, prot) == IF old = "NONE" THEN "NONE" ELSE prot

\* mprotect(mem, INTERRUPT_SIGNAL_MEM_SIZE, prot) on the sentinel page whose
\* protection is old: the page has the protection asked for.
mprotect(old, prot) == prot

\* set_wasm_interrupt(): mprotect(mem, PROT_NONE)
set_wasm_interrupt == "NONE"

\* clear_wasm_interrupt(): mprotect(mem, PROT_READ | PROT_WRITE)
clear_wasm_interrupt == "RW"

\* Host code calls set_wasm_interrupt() itself.
embedder_set_wasm_interrupt ==
  /\ proc = "running"
  /\ INTERRUPT_SIGNAL_MEM' = mprotect(INTERRUPT_SIGNAL_MEM, set_wasm_interrupt)
  /\ h' = [h EXCEPT !.prot = "set"]
  /\ UNCHANGED <<proc, INSTALL_SIGHANDLER, disposition, SIGINT_SYS_HANDLER,
                 INTERRUPT_SIGNAL_DELIVERED, sigint_pc, ARCH, alloc, fault_info,
                 tvars>>
  /\ UNCHANGED cvars

\* Host code calls clear_wasm_interrupt() itself.
embedder_clear_wasm_interrupt ==
  /\ proc = "running"
  /\ INTERRUPT_SIGNAL_MEM' = mprotect(INTERRUPT_SIGNAL_MEM, clear_wasm_interrupt)
  /\ h' = [h EXCEPT !.prot = "clear"]
  /\ UNCHANGED <<proc, INSTALL_SIGHANDLER, disposition, SIGINT_SYS_HANDLER,
                 INTERRUPT_SIGNAL_DELIVERED, sigint_pc, ARCH, alloc, fault_info,
                 tvars>>
  /\ UNCHANGED cvars

(* ------------------------- the alternate stack ------------------------- *)
\* const TRAP_STACK_SIZE: usize = 1048576
TRAP_STACK_SIZE == 1048576

\* An allocate_and_run without its two assertions.
SizeAccepted_any(size) == TRUE

\* assert!(size % 16 == 0); assert!(size >= 4096);
SizeAccepted(size) == size % 16 = 0 /\ size >= 4096

\* allocate_and_run(size, f) for an f that returns v. On x86_64 the assertions,
\* then vec![0; size / 8] (a heap allocation), run_on_alternative_stack calling
\* invoke (f.take().unwrap(), ret = Some(f())) and ctx.ret.take().unwrap(); on
\* every other target_arch f() alone.
allocate_and_run(arch, size, v) ==
  IF arch # "x86_64"
  THEN [asserted |-> FALSE, calls |-> 1, ret |-> v, heap |-> FALSE]
  ELSE IF ~SizeAccepted(size)
  THEN [asserted |-> TRUE, calls |-> 0, ret |-> NoPayload, heap |-> FALSE]
  ELSE [asserted |-> FALSE, calls |-> 1, ret |-> v, heap |-> TRUE]

\* The sizes host code passes: around each multiple of 4096 up to MaxPages
\* pages (a multiple of 16, a multiple of 8 only, the next multiple of 16), and
\* TRAP_STACK_SIZE.
AllocSizes ==
  {p * 4096 + d : p \in 0..MaxPages, d \in {0, 8, 16}} \cup {TRAP_STACK_SIZE}

\* The values the closure f returns.
AllocValues == {<<"User", k>> : k \in Addrs}

\* Host code calls allocate_and_run(size, f), f returning v.
allocate_and_run_call(size, v) ==
  /\ proc = "running"
  /\ alloc' = [size |-> size, f |-> v] @@ allocate_and_run(ARCH, size, v)
  /\ UNCHANGED <<proc, INSTALL_SIGHANDLER, disposition, SIGINT_SYS_HANDLER,
                 INTERRUPT_SIGNAL_DELIVERED, INTERRUPT_SIGNAL_MEM, sigint_pc, ARCH,
                 fault_info>>
  /\ UNCHANGED <<tvars, h>>
  /\ UNCHANGED cvars

(* --------------------------- the context decoders ----------------------- *)
\* The canonical register enumeration of known_registers: the 16 GPRs in the
\* order of the x86_64 encoding, then XMM0..XMM15.
GPR == <<"RAX", "RCX", "RDX", "RBX", "RSP", "RBP", "RSI", "RDI",
         "R8", "R9", "R10", "R11", "R12", "R13", "R14", "R15">>

\* X64Register::GPR(r).to_index().0 and X64Register::XMM(n).to_index().0
to_index(reg) ==
  IF reg[1] = "GPR" THEN (CHOOSE i \in 1..16 : GPR[i] = reg[2]) - 1
  ELSE 16 + reg[2]

\* Option<u64>
NoneReg == <<FALSE, 0>>
SomeReg(v) == <<TRUE, v>>

\* let mut known_registers = [None; 32]; followed by the assignments
\* known_registers[to_index(writes[k][1])] = Some(src[writes[k][2]]) in order.
KnownRegisters(writes, src) ==
  [i \in 0..31 |->
     LET ws == {k \in 1..Len(writes) : to_index(writes[k][1]) = i}
     IN IF ws = {} THEN NoneReg
        ELSE SomeReg(src[writes[CHOOSE k \in ws : \A j \in ws : j <= k][2]])]

\* read_xmm: the low 64 bits of a 128-bit register, and fs.xmm[n][0] on macOS.
read_xmm(reg) == reg.lo

\* The 16 assignments of XMM0..XMM15 from the FP save area.
XmmWrites == [n \in 1..16 |-> << <<"XMM", n - 1>>, n - 1 >>]

\* A FreeBSD aarch64 decoder that takes RBP from x4.
get_fault_info_freebsd_aarch64_x4(c) ==
  [faulting_addr |-> c.si_addr, ip |-> c.pc,
   known_registers |->
     KnownRegisters(<< << <<"GPR", "R15">>, 15 >>, << <<"GPR", "R14">>, 14 >>,
                       << <<"GPR", "R13">>, 13 >>, << <<"GPR", "R12">>, 12 >>,
                       << <<"GPR", "R11">>, 11 >>, << <<"GPR", "R10">>, 10 >>,
                       << <<"GPR", "R9">>, 9 >>, << <<"GPR", "R8">>, 8 >>,
                       << <<"GPR", "RSI">>, 6 >>, << <<"GPR", "RDI">>, 7 >>,
                       << <<"GPR", "RDX">>, 2 >>, << <<"GPR", "RCX">>, 1 >>,
                       << <<"GPR", "RBX">>, 3 >>, << <<"GPR", "RAX">>, 0 >>,
                       << <<"GPR", "RBP">>, 4 >>, << <<"GPR", "RSP">>, 28 >> >>,
                    c.x)]

\* get_fault_info, target_os = "freebsd", target_arch = "aarch64": from
\* mc_gpregs.gp_x (x0..x29), si_addr and gp_elr.
get_fault_info_freebsd_aarch64(c) ==
  [faulting_addr |-> c.si_addr, ip |-> c.pc,
   known_registers |->
     KnownRegisters(<< << <<"GPR", "R15">>, 15 >>, << <<"GPR", "R14">>, 14 >>,
                       << <<"GPR", "R13">>, 13 >>, << <<"GPR", "R12">>, 12 >>,
                       << <<"GPR", "R11">>, 11 >>, << <<"GPR", "R10">>, 10 >>,
                       << <<"GPR", "R9">>, 9 >>, << <<"GPR", "R8">>, 8 >>,
                       << <<"GPR", "RSI">>, 6 >>, << <<"GPR", "RDI">>, 7 >>,
                       << <<"GPR", "RDX">>, 2 >>, << <<"GPR", "RCX">>, 1 >>,
                       << <<"GPR", "RBX">>, 3 >>, << <<"GPR", "RAX">>, 0 >>,
                       << <<"GPR", "RBP">>, 5 >>, << <<"GPR", "RSP">>, 28 >> >>,
                    [i \in 0..29 |-> c.x[i]])]

\* get_fault_info, target_os = "linux" or "android", target_arch = "aarch64":
\* from uc_mcontext.regs (x0..x30), si_addr and pc.
get_fault_info_linux_aarch64(c) ==
  [faulting_addr |-> c.si_addr, ip |-> c.pc,
   known_registers |->
     KnownRegisters(<< << <<"GPR", "R15">>, 15 >>, << <<"GPR", "R14">>, 14 >>,
                       << <<"GPR", "R13">>, 13 >>, << <<"GPR", "R12">>, 12 >>,
                       << <<"GPR", "R11">>, 11 >>, << <<"GPR", "R10">>, 10 >>,
                       << <<"GPR", "R9">>, 9 >>, << <<"GPR", "R8">>, 8 >>,
                       << <<"GPR", "RSI">>, 6 >>, << <<"GPR", "RDI">>, 7 >>,
                       << <<"GPR", "RDX">>, 2 >>, << <<"GPR", "RCX">>, 1 >>,
                       << <<"GPR", "RBX">>, 3 >>, << <<"GPR", "RAX">>, 0 >>,
                       << <<"GPR", "RBP">>, 5 >>, << <<"GPR", "RSP">>, 28 >> >>,
                    c.x)]

\* The GPR assignments of the three x86_64 decoders, each register from the
\* context field of its own name (mc_r15, gregs[REG_R15], ss.r15, ...).
X64Writes ==
  << << <<"GPR", "R15">>, "R15" >>, << <<"GPR", "R14">>, "R14" >>,
     << <<"GPR", "R13">>, "R13" >>, << <<"GPR", "R12">>, "R12" >>,
     << <<"GPR", "R11">>, "R11" >>, << <<"GPR", "R10">>, "R10" >>,
     << <<"GPR", "R9">>, "R9" >>, << <<"GPR", "R8">>, "R8" >>,
     << <<"GPR", "RSI">>, "RSI" >>, << <<"GPR", "RDI">>, "RDI" >>,
     << <<"GPR", "RDX">>, "RDX" >>, << <<"GPR", "RCX">>, "RCX" >>,
     << <<"GPR", "RBX">>, "RBX" >>, << <<"GPR", "RAX">>, "RAX" >>,
     << <<"GPR", "RBP">>, "RBP" >>, << <<"GPR", "RSP">>, "RSP" >> >>

\* The known_registers of an x86_64 decoder: the GPRs, and the XMMs when the
\* decoder reads the FP save area.
X64KnownRegisters(c, with_xmm) ==
  LET gprs == KnownRegisters(X64Writes, c.gpr)
      xmms == KnownRegisters(XmmWrites, [n \in 0..15 |-> read_xmm(c.xmm[n])])
  IN [i \in 0..31 |-> IF with_xmm /\ i >= 16 THEN xmms[i] ELSE gprs[i]]

\* get_fault_info, target_os = "freebsd", target_arch = "x86_64": the XMMs when
\* (mc_flags & _MC_HASFPXSTATE) == 0.
get_fault_info_freebsd_x86_64(c) ==
  [faulting_addr |-> c.si_addr, ip |-> c.pc,
   known_registers |-> X64KnownRegisters(c, ~c.hasfpxstate)]

\* get_fault_info, target_os = "linux", target_arch = "x86_64" (not musl): the
\* XMMs when uc_mcontext.fpregs is not null.
get_fault_info_linux_x86_64(c) ==
  [faulting_addr |-> c.si_addr, ip |-> c.pc,
   known_registers |-> X64KnownRegisters(c, c.fpregs)]

\* get_fault_info, target_os = "macos", target_arch = "x86_64": the XMMs always.
get_fault_info_macos_x86_64(c) ==
  [faulting_addr |-> c.si_addr, ip |-> c.pc,
   known_registers |-> X64KnownRegisters(c, TRUE)]

\* The get_fault_info the build for os and arch contains.
get_fault_info(os, arch, c) ==
  IF arch = "aarch64"
  THEN IF os = "freebsd" THEN get_fault_info_freebsd_aarch64(c)
       ELSE get_fault_info_linux_aarch64(c)
  ELSE IF os = "freebsd" THEN get_fault_info_freebsd_x86_64(c)
       ELSE IF os = "linux" THEN get_fault_info_linux_x86_64(c)
       ELSE get_fault_info_macos_x86_64(c)

\* FaultInfo::read_stack is Some: `let rsp = self.known_registers[RSP]?`
read_stack_is_some(info) == info.known_registers[to_index(<<"GPR", "RSP">>)][1]

\* The operating systems with a decoder for the architecture.
TargetOs(arch) ==
  IF arch = "aarch64" THEN {"linux", "freebsd"} ELSE {"linux", "freebsd", "macos"}

\* The contexts the kernel hands over: the register of canonical or aarch64
\* number hot holds a, every other one b; the upper half of the XMM registers
\* holds the other value; the FP save area is present or not.
UContext(hot, a, b, fp, addr) ==
  [x |-> [i \in 0..30 |-> IF i = hot THEN a ELSE b],
   gpr |-> [r \in {GPR[i] : i \in 1..16} |->
              IF to_index(<<"GPR", r>>) = hot THEN a ELSE b],
   xmm |-> [n \in 0..15 |-> IF 16 + n = hot THEN [lo |-> a, hi |-> b]
                            ELSE [lo |-> b, hi |-> a]],
   fpregs |-> fp, hasfpxstate |-> fp,
   si_addr |-> addr, pc |-> MaxAddr - addr]

\* The kernel delivers a signal with context c on a build for os: the handler
\* begins with get_fault_info(siginfo, ucontext).
get_fault_info_call(os, c) ==
  /\ proc = "running"
  /\ fault_info = NoFaultInfo
  /\ os \in TargetOs(ARCH)
  /\ fault_info' = [os |-> os, ucontext |-> c, info |-> get_fault_info(os, ARCH, c)]
  /\ UNCHANGED <<proc, INSTALL_SIGHANDLER, disposition, SIGINT_SYS_HANDLER,
                 INTERRUPT_SIGNAL_DELIVERED, INTERRUPT_SIGNAL_MEM, sigint_pc, ARCH,
                 alloc>>
  /\ UNCHANGED <<tvars, h>>
  /\ UNCHANGED cvars

\* The handler returns: its FaultInfo is gone.
fault_info_dropped ==
  /\ proc = "running"
  /\ fault_info # NoFaultInfo
  /\ fault_info' = NoFaultInfo
  /\ UNCHANGED <<proc, INSTALL_SIGHANDLER, disposition, SIGINT_SYS_HANDLER,
                 INTERRUPT_SIGNAL_DELIVERED, INTERRUPT_SIGNAL_MEM, sigint_pc, ARCH,
                 alloc>>
  /\ UNCHANGED <<tvars, h>>
  /\ UNCHANGED cvars

(* --------------------------- the fault dispatcher ----------------------- *)
\* Phase 1, the scan of `for v in versions.iter()` from index i on: the first
\* version that has an inline-breakpoint size and whose range holds ip and
\* ip + magic_size decides; versions without a size are skipped (continue).
RECURSIVE InlineBreakpointScan(_, _, _)
InlineBreakpointScan(versions, i, ip) ==
  IF i > Len(versions) THEN [decoded |-> FALSE, magic_size |-> 0]
  ELSE LET v == versions[i]
           ms == get_inline_breakpoint_size(v.module)
           end == v.base + v.total_size
       IN IF ~ms[1] THEN InlineBreakpointScan(versions, i + 1, ip)
          ELSE IF ip >= v.base /\ ip < end /\ ip + ms[2] <= end
          THEN IF read_inline_breakpoint(v.module, ip)
               THEN [decoded |-> TRUE, magic_size |-> ms[2]]
               ELSE [decoded |-> FALSE, magic_size |-> 0]
          ELSE InlineBreakpointScan(versions, i + 1, ip)

\* Phase 3, the exception-table lookup over versions.iter(): <<found, code>>.
RECURSIVE ExceptionCode(_, _, _)
ExceptionCode(versions, i, ip) ==
  IF i > Len(versions) THEN <<FALSE, 0>>
  ELSE LET v == versions[i]
           table == get_exception_table(v.module)
           end == v.base + v.total_size
           hits == IF table[1] /\ ip >= v.base /\ ip < end
                   THEN {e \in table[2] : e[1] = ip - v.base} ELSE {}
       IN IF hits # {} THEN <<TRUE, (CHOOSE e \in hits : TRUE)[2]>>
          ELSE ExceptionCode(versions, i + 1, ip)

\* A dispatcher that drops the error it was given.
get_unwind_result_dropped(uw_result) == FailedWithNoError

\* get_unwind_result: uw_result.unwrap_or_else(|| Box::new(FailedWithNoError))
get_unwind_result(uw_result) ==
  IF uw_result = NoPayload THEN FailedWithNoError ELSE uw_result

\* get_unwind_result(unwind_result) for a fault that is no suspension.
TrapResult(t, ip) ==
  LET exc == ExceptionCode(CURRENT_CODE_VERSIONS[t], 1, ip)
  IN get_unwind_result(IF exc[1] THEN TrapCode(exc[2]) ELSE NoPayload)

\* A Phase 2 that leaves the thread-local flag as it finds it.
FlagAtPhase2_kept(flag) == flag

\* Phase 2 entry: WAS_SIGINT_TRIGGERED.with(|x| x.set(false))
FlagAtPhase2(flag) == FALSE

\* A dispatcher that sets the thread-local flag at every sentinel fault.
FlagAfterSwap_always(delivered, flag) == TRUE

\* A dispatcher that never sets the thread-local flag.
FlagAfterSwap_never(delivered, flag) == flag

\* The thread-local flag after `if INTERRUPT_SIGNAL_DELIVERED.swap(false) { set(true) }`.
FlagAfterSwap(delivered, flag) == IF delivered THEN TRUE ELSE flag

\* A Phase 1 that leaves the context IP on the inline breakpoint.
AdvancedIp_same(ip, magic_size) == ip

\* fault.ip.set(ip + magic_size)
AdvancedIp(ip, magic_size) == ip + magic_size

\* A Phase 1 that hands a breakpoint without a callback on to Phase 2.
Phase1Outcome_needs_callback(out) ==
  IF out[1] = "Err" THEN "unwind"
  ELSE IF out[1] = "Ok" THEN "return"
  ELSE "classify"

\* Phase 1 after a decode: if let Some(Ok(())) = out {} else if let Some(Err(e))
\* = out { should_unwind = true; .. } then fault.ip.set(..); return true
Phase1Outcome(out) == IF out[1] = "Err" THEN "unwind" ELSE "return"

\* A Phase 2 that goes on to classify a SIGTRAP whose callback returned Ok(()).
SigtrapOutcome_classifies(out) == IF out[1] = "Err" THEN "unwind" ELSE "classify"

\* Phase 2, Ok(SIGTRAP): match out { Some(Ok(())) => return false,
\* Some(Err(e)) => return true, None => {} }
SigtrapOutcome(out) ==
  IF out[1] = "Ok" THEN "return"
  ELSE IF out[1] = "Err" THEN "unwind"
  ELSE "classify"

\* A dispatcher that looks at the faulting address alone.
IsSuspendSignal_anysignal(signum, faulting_addr) ==
  faulting_addr = get_wasm_interrupt_signal_mem

\* is_suspend_signal: SIGSEGV or SIGBUS at the sentinel page.
IsSuspendSignal(signum, faulting_addr) ==
  /\ signum \in {"SIGSEGV", "SIGBUS"}
  /\ faulting_addr = get_wasm_interrupt_signal_mem

\* signal_trap_handler from its entry to its first access of shared state:
\* Phase 1, and Phase 2 up to clear_wasm_interrupt(); for a fault that is no
\* suspension the whole handler (Phase 3 and begin_unsafe_unwind included).
\* The kernel reports a fault at the sentinel page only while it is PROT_NONE.
signal_trap_handler(t, signum, faulting_addr, ip) ==
  /\ Running(t)
  /\ disposition[signum] = "signal_trap_handler"
  /\ IsSuspendSignal(signum, faulting_addr) => INTERRUPT_SIGNAL_MEM = "NONE"
  /\ LET scan == InlineBreakpointScan(CURRENT_CODE_VERSIONS[t], 1, ip)
         out == Callback(with_breakpoint_map(t), ip)
         onstack == allocate_and_run(ARCH, TRAP_STACK_SIZE, NoPayload)
         \* the fault as the handler leaves it: the phase reached, the context
         \* IP, and whether the handler allocated (the stack, a Box::new)
         Fault(phase, ctx_ip, boxed) ==
           [signum |-> signum, faulting_addr |-> faulting_addr, ip |-> ip,
            ctx_ip |-> ctx_ip, phase |-> phase, heap |-> onstack.heap \/ boxed]
         returns == /\ pc' = [pc EXCEPT ![t] = "sigreturn"]
                    /\ UNCHANGED <<proc, UNWIND, stack, fend, with_ctx_calls>>
         panics == /\ proc' = "panicked"
                   /\ UNCHANGED <<UNWIND, stack, pc, fend, with_ctx_calls>>
     IN IF scan.decoded /\ (~UNWIND[t].some \/ Phase1Outcome(out) # "classify")
        THEN \* Phase 1: with_breakpoint_map, the callback, fault.ip.set(ip + magic_size)
             /\ UNCHANGED WAS_SIGINT_TRIGGERED
             /\ IF ~UNWIND[t].some
                THEN panics /\ fault' = [fault EXCEPT ![t] = Fault(1, ip, FALSE)]
                ELSE IF Phase1Outcome(out) = "unwind"
                THEN /\ begin_unsafe_unwind(t, get_unwind_result(out[2]))
                     /\ fault' = [fault EXCEPT ![t] =
                                    Fault(1, AdvancedIp(ip, scan.magic_size), TRUE)]
                ELSE /\ returns
                     /\ fault' = [fault EXCEPT ![t] =
                                    Fault(1, AdvancedIp(ip, scan.magic_size), FALSE)]
        ELSE \* Phase 2
             /\ WAS_SIGINT_TRIGGERED' =
                  [WAS_SIGINT_TRIGGERED EXCEPT ![t] = FlagAtPhase2(@)]
             /\ IF signum = "SIGTRAP" /\ ~UNWIND[t].some
                THEN panics /\ fault' = [fault EXCEPT ![t] = Fault(2, ip, FALSE)]
                ELSE IF signum = "SIGTRAP" /\ SigtrapOutcome(out) = "return"
                THEN returns /\ fault' = [fault EXCEPT ![t] = Fault(2, ip, FALSE)]
                ELSE IF signum = "SIGTRAP" /\ SigtrapOutcome(out) = "unwind"
                THEN /\ begin_unsafe_unwind(t, get_unwind_result(out[2]))
                     /\ fault' = [fault EXCEPT ![t] = Fault(2, ip, TRUE)]
                ELSE IF IsSuspendSignal(signum, faulting_addr)
                THEN /\ pc' = [pc EXCEPT ![t] = "clear"]
                     /\ UNCHANGED <<proc, UNWIND, stack, fend, with_ctx_calls>>
                     /\ fault' = [fault EXCEPT ![t] = Fault(2, ip, FALSE)]
                ELSE \* Phase 3 of a fault that is no suspension
                     /\ begin_unsafe_unwind(t, TrapResult(t, ip))
                     /\ fault' = [fault EXCEPT ![t] = Fault(3, ip, TRUE)]
  /\ UNCHANGED <<INSTALL_SIGHANDLER, disposition, SIGINT_SYS_HANDLER,
                 INTERRUPT_SIGNAL_DELIVERED, INTERRUPT_SIGNAL_MEM, sigint_pc,
                 CURRENT_CODE_VERSIONS, prev_local, result, h>>
  /\ UNCHANGED <<ARCH, alloc, fault_info>>
  /\ UNCHANGED CURRENT_CTX

\* The handler returned to the kernel: the thread resumes at the context IP.
sigreturn(t) ==
  /\ proc = "running"
  /\ pc[t] = "sigreturn"
  /\ pc' = [pc EXCEPT ![t] = "run"]
  /\ fault' = [fault EXCEPT ![t] = NoFault]
  /\ UNCHANGED <<gvars, UNWIND, stack, WAS_SIGINT_TRIGGERED, CURRENT_CODE_VERSIONS,
                 prev_local, result, fend, h>>
  /\ UNCHANGED cvars

\* A trap signal whose disposition is not the core's handler: the default action
\* of SIGFPE, SIGILL, SIGSEGV, SIGBUS and SIGTRAP ends the process.
trap_uncaught(t, signum) ==
  /\ Running(t)
  /\ disposition[signum] # "signal_trap_handler"
  /\ proc' = "killed"
  /\ UNCHANGED <<INSTALL_SIGHANDLER, disposition, SIGINT_SYS_HANDLER,
                 INTERRUPT_SIGNAL_DELIVERED, INTERRUPT_SIGNAL_MEM, sigint_pc, tvars, h>>
  /\ UNCHANGED <<ARCH, alloc, fault_info>>
  /\ UNCHANGED cvars

\* Phase 2 of a suspension: clear_wasm_interrupt()
signal_trap_handler_clear(t) ==
  /\ proc = "running"
  /\ pc[t] = "clear"
  /\ INTERRUPT_SIGNAL_MEM' = mprotect(INTERRUPT_SIGNAL_MEM, clear_wasm_interrupt)
  /\ pc' = [pc EXCEPT ![t] = "swap"]
  /\ h' = [h EXCEPT !.prot = "clear"]
  /\ UNCHANGED <<proc, INSTALL_SIGHANDLER, disposition, SIGINT_SYS_HANDLER,
                 INTERRUPT_SIGNAL_DELIVERED, sigint_pc, UNWIND, stack,
                 WAS_SIGINT_TRIGGERED, CURRENT_CODE_VERSIONS, prev_local, result,
                 fend>>
  /\ UNCHANGED <<ARCH, alloc, fault_info>>
  /\ UNCHANGED fault
  /\ UNCHANGED cvars

\* Phase 2 of a suspension from INTERRUPT_SIGNAL_DELIVERED.swap(false) on, then
\* Phase 3: build_instance_image and begin_unsafe_unwind(InstanceImage).
signal_trap_handler_swap(t) ==
  /\ proc = "running"
  /\ pc[t] = "swap"
  /\ INTERRUPT_SIGNAL_DELIVERED' = FALSE
  /\ WAS_SIGINT_TRIGGERED' =
       [WAS_SIGINT_TRIGGERED EXCEPT ![t] = FlagAfterSwap(INTERRUPT_SIGNAL_DELIVERED, @)]
  /\ begin_unsafe_unwind(t, get_unwind_result(InstanceImage))
  /\ fault' = [fault EXCEPT ![t].phase = 3, ![t].heap = TRUE]
  /\ UNCHANGED <<INSTALL_SIGHANDLER, disposition, SIGINT_SYS_HANDLER,
                 INTERRUPT_SIGNAL_MEM, sigint_pc, CURRENT_CODE_VERSIONS, prev_local,
                 result, h>>
  /\ UNCHANGED <<ARCH, alloc, fault_info>>
  /\ UNCHANGED CURRENT_CTX

(* ------------------------------- SIGINT --------------------------------- *)
\* sigint_handler up to set_wasm_interrupt(): the swap(true) and the abort.
sigint_handler ==
  /\ proc = "running"
  /\ h.sigints < MaxSigints
  /\ sigint_pc.arm + sigint_pc.chain < NumSigCtx
  /\ disposition["SIGINT"] = "sigint_handler"
  /\ h' = [h EXCEPT !.sigints = @ + 1]
  /\ IF INTERRUPT_SIGNAL_DELIVERED
     THEN /\ proc' = "aborted"
          /\ UNCHANGED <<INTERRUPT_SIGNAL_DELIVERED, sigint_pc>>
     ELSE /\ INTERRUPT_SIGNAL_DELIVERED' = TRUE
          /\ sigint_pc' = [sigint_pc EXCEPT !.arm = @ + 1]
          /\ proc' = proc
  /\ UNCHANGED <<INSTALL_SIGHANDLER, disposition, SIGINT_SYS_HANDLER,
                 INTERRUPT_SIGNAL_MEM, tvars>>
  /\ UNCHANGED <<ARCH, alloc, fault_info>>
  /\ UNCHANGED cvars

\* A SIGINT while the core's handler is not the installed disposition: the kernel
\* applies what is installed (terminate, ignore, or the application's handler).
sigint_uncaught ==
  /\ proc = "running"
  /\ h.sigints < MaxSigints
  /\ disposition["SIGINT"] # "sigint_handler"
  /\ proc' = IF disposition["SIGINT"] = "SigDfl" THEN "killed" ELSE proc
  /\ h' = [h EXCEPT !.sigints = @ + 1,
                    !.prevCalls = IF disposition["SIGINT"] \in {"Handler", "SigAction"}
                                  THEN @ + 1 ELSE @]
  /\ UNCHANGED <<INSTALL_SIGHANDLER, disposition, SIGINT_SYS_HANDLER,
                 INTERRUPT_SIGNAL_DELIVERED, INTERRUPT_SIGNAL_MEM, sigint_pc, tvars>>
  /\ UNCHANGED <<ARCH, alloc, fault_info>>
  /\ UNCHANGED cvars

\* sigint_handler: set_wasm_interrupt()
sigint_handler_arm ==
  /\ proc = "running"
  /\ sigint_pc.arm > 0
  /\ INTERRUPT_SIGNAL_MEM' = mprotect(INTERRUPT_SIGNAL_MEM, set_wasm_interrupt)
  /\ sigint_pc' = [arm |-> sigint_pc.arm - 1, chain |-> sigint_pc.chain + 1]
  /\ h' = [h EXCEPT !.prot = "set"]
  /\ UNCHANGED <<proc, INSTALL_SIGHANDLER, disposition, SIGINT_SYS_HANDLER,
                 INTERRUPT_SIGNAL_DELIVERED, tvars>>
  /\ UNCHANGED <<ARCH, alloc, fault_info>>
  /\ UNCHANGED cvars

\* call_signal_handler(sig, .., sig_action): what it does to the installed
\* disposition of sig. SigDfl: sigaction(sig, sig_action), i.e. the default
\* action is installed again; every other variant leaves it alone.
call_signal_handler_disposition(installed, sig_action) ==
  IF sig_action = "SigDfl" THEN "SigDfl" ELSE installed

\* call_signal_handler: whether the previous handler function is called.
call_signal_handler_calls(sig_action) == sig_action \in {"Handler", "SigAction"}

\* sigint_handler: if let Some(prev_handler) = SIGINT_SYS_HANDLER { call_signal_handler(..) }
sigint_handler_chain ==
  /\ proc = "running"
  /\ sigint_pc.chain > 0
  /\ sigint_pc' = [sigint_pc EXCEPT !.chain = @ - 1]
  /\ IF SIGINT_SYS_HANDLER = "None"
     THEN UNCHANGED <<disposition, h>>
     ELSE /\ disposition' =
               [disposition EXCEPT !["SIGINT"] =
                  call_signal_handler_disposition(@, SIGINT_SYS_HANDLER)]
          /\ h' = [h EXCEPT !.prevCalls =
                     IF call_signal_handler_calls(SIGINT_SYS_HANDLER) THEN @ + 1 ELSE @]
  /\ UNCHANGED <<proc, INSTALL_SIGHANDLER, SIGINT_SYS_HANDLER,
                 INTERRUPT_SIGNAL_DELIVERED, INTERRUPT_SIGNAL_MEM, tvars>>
  /\ UNCHANGED <<ARCH, alloc, fault_info>>
  /\ UNCHANGED cvars

(* ---------------------------- installation ------------------------------ *)
\* An ensure_sighandler that calls install_sighandler on every call.
OnceRuns_always(once) == TRUE

\* Once::call_once: the closure runs for the call that finds the Once new.
OnceRuns(once) == once = "new"

\* ensure_sighandler: INSTALL_SIGHANDLER.call_once(|| install_sighandler()).
\* A call that finds the Once running blocks until it is done.  Calls are
\* explored outside any catch_unsafe_unwind (the installation never touches the
\* unwind slot).
ensure_sighandler(t) ==
  /\ Running(t)
  /\ stack[t] = <<>>
  /\ INSTALL_SIGHANDLER # "running"
  /\ IF OnceRuns(INSTALL_SIGHANDLER)
     THEN /\ h.installRuns < MaxInstalls
          /\ INSTALL_SIGHANDLER' = "running"
          /\ pc' = [pc EXCEPT ![t] = "install_traps"]
          /\ h' = [h EXCEPT !.installers = @ \cup {t}, !.installRuns = @ + 1]
     ELSE /\ UNCHANGED <<INSTALL_SIGHANDLER, pc>>
          /\ h' = [h EXCEPT !.ensured = @ \cup {t}]
  /\ UNCHANGED <<proc, disposition, SIGINT_SYS_HANDLER, INTERRUPT_SIGNAL_DELIVERED,
                 INTERRUPT_SIGNAL_MEM, sigint_pc, UNWIND, stack, WAS_SIGINT_TRIGGERED,
                 CURRENT_CODE_VERSIONS, prev_local, result, fend>>
  /\ UNCHANGED <<ARCH, alloc, fault_info>>
  /\ UNCHANGED fault
  /\ UNCHANGED cvars

\* install_sighandler: sigaction(SIGFPE | SIGILL | SIGSEGV | SIGBUS | SIGTRAP, &sa_trap)
install_sighandler_traps(t) ==
  /\ proc = "running"
  /\ pc[t] = "install_traps"
  /\ disposition' = [s \in Signals |->
                       IF s \in TrapSignals THEN "signal_trap_handler" ELSE disposition[s]]
  /\ pc' = [pc EXCEPT ![t] = "install_int"]
  /\ h' = [h EXCEPT !.sigactions = @ + Cardinality(TrapSignals)]
  /\ UNCHANGED <<proc, INSTALL_SIGHANDLER, SIGINT_SYS_HANDLER,
                 INTERRUPT_SIGNAL_DELIVERED, INTERRUPT_SIGNAL_MEM, sigint_pc, UNWIND,
                 stack, WAS_SIGINT_TRIGGERED, CURRENT_CODE_VERSIONS, prev_local,
                 result, fend>>
  /\ UNCHANGED <<ARCH, alloc, fault_info>>
  /\ UNCHANGED fault
  /\ UNCHANGED cvars

\* install_sighandler: sigaction(SIGINT, &sa_interrupt), which returns the old action
install_sighandler_sigint(t) ==
  /\ proc = "running"
  /\ pc[t] = "install_int"
  /\ prev_local' = [prev_local EXCEPT ![t] = disposition["SIGINT"]]
  /\ disposition' = [disposition EXCEPT !["SIGINT"] = "sigint_handler"]
  /\ pc' = [pc EXCEPT ![t] = "install_store"]
  /\ h' = [h EXCEPT !.sigactions = @ + 1]
  /\ UNCHANGED <<proc, INSTALL_SIGHANDLER, SIGINT_SYS_HANDLER,
                 INTERRUPT_SIGNAL_DELIVERED, INTERRUPT_SIGNAL_MEM, sigint_pc, UNWIND,
                 stack, WAS_SIGINT_TRIGGERED, CURRENT_CODE_VERSIONS, result, fend>>
  /\ UNCHANGED <<ARCH, alloc, fault_info>>
  /\ UNCHANGED fault
  /\ UNCHANGED cvars

\* install_sighandler: SIGINT_SYS_HANDLER = Some(..); then call_once completes
install_sighandler_store(t) ==
  /\ proc = "running"
  /\ pc[t] = "install_store"
  /\ SIGINT_SYS_HANDLER' = prev_local[t]
  /\ INSTALL_SIGHANDLER' = "done"
  /\ pc' = [pc EXCEPT ![t] = "run"]
  /\ UNCHANGED <<proc, disposition, INTERRUPT_SIGNAL_DELIVERED, INTERRUPT_SIGNAL_MEM,
                 sigint_pc, UNWIND, stack, WAS_SIGINT_TRIGGERED, CURRENT_CODE_VERSIONS,
                 prev_local, result, fend, h>>
  /\ UNCHANGED <<ARCH, alloc, fault_info>>
  /\ UNCHANGED fault
  /\ UNCHANGED cvars

(* --------------------------- specifications ----------------------------- *)
\* What a thread does.
Unwinding(t) ==
  \/ \E bk \in BreakpointMaps : catch_unsafe_unwind(t, bk)
  \/ \E v \in RetVals : f_returns(t, v)
  \/ catch_unsafe_unwind_ok(t)
  \/ \E e \in UserErrors : host_unwind(t, e)
  \/ catch_unsafe_unwind_err(t)
  \/ caller_resumes(t)

\* A thread entering and leaving the modules of versions, at most depth deep.
EnteredModules(t, versions, depth) ==
  \/ /\ Len(CURRENT_CODE_VERSIONS[t]) < depth
     /\ \E v \in versions : push_code_version(t, v)
  \/ pop_code_version(t)

Versions(t) == EnteredModules(t, CodeVersions, MaxVersions)

Traps(t) ==
  \/ \E signum \in TrapSignals, faulting_addr \in FaultAddrs, ip \in Addrs :
       signal_trap_handler(t, signum, faulting_addr, ip)
  \/ \E signum \in TrapSignals : trap_uncaught(t, signum)
  \/ signal_trap_handler_clear(t)
  \/ signal_trap_handler_swap(t)
  \/ sigreturn(t)

Installing(t) ==
  \/ ensure_sighandler(t)
  \/ install_sighandler_traps(t)
  \/ install_sighandler_sigint(t)
  \/ install_sighandler_store(t)

Sigint ==
  \/ sigint_handler
  \/ sigint_uncaught
  \/ sigint_handler_arm
  \/ sigint_handler_chain

\* One guest-entering thread whose faults the dispatcher classifies without a
\* registered code version, the signal handlers and the SIGINTs of the environment.
Next ==
  \/ Unwinding(1)
  \/ Traps(1)
  \/ Installing(1)
  \/ Sigint

Spec == Init /\ [][Next]_vars

\* Every thread racing to install, and the SIGINTs of the environment.
NextInstall ==
  \/ \E t \in Threads : Installing(t)
  \/ Sigint

SpecInstall == Init /\ [][NextInstall]_vars

\* Host code arming and disarming the sentinel.
Embedder ==
  \/ embedder_set_wasm_interrupt
  \/ embedder_clear_wasm_interrupt

\* One guest-entering thread with its code versions, every fault the dispatcher
\* can be given, and host code arming and disarming the sentinel; no SIGINT.
NextTrap ==
  \/ Unwinding(1)
  \/ Versions(1)
  \/ Traps(1)
  \/ Installing(1)
  \/ Embedder

SpecTrap == Init /\ [][NextTrap]_vars

\* A thread that enters the guest from outside any catch_unsafe_unwind, without
\* a breakpoint map, and takes the faults whose signal is in signums, at the
\* faulting addresses in addrs and the instruction addresses in ips.
Guest(t, signums, addrs, ips) ==
  \/ stack[t] = <<>> /\ catch_unsafe_unwind(t, "None")
  \/ \E signum \in signums, faulting_addr \in addrs, ip \in ips :
       signal_trap_handler(t, signum, faulting_addr, ip)
  \/ signal_trap_handler_clear(t)
  \/ signal_trap_handler_swap(t)
  \/ catch_unsafe_unwind_err(t)
  \/ caller_resumes(t)

\* The application ignored SIGINT before the installation.
InitIgn == InitWith({"SigIgn"}, {"x86_64"})

\* One guest thread with its code versions taking every fault, while SIGINTs
\* arrive and host code arms and disarms the sentinel.
NextSuspend ==
  \/ Guest(1, TrapSignals, FaultAddrs, Addrs)
  \/ sigreturn(1)
  \/ Versions(1)
  \/ Installing(1)
  \/ Sigint
  \/ Embedder

SpecSuspend == InitIgn /\ [][NextSuspend]_vars

\* Several guest threads reading the sentinel page while SIGINTs arrive.
NextGuests ==
  \/ \E t \in Threads : Guest(t, {"SIGSEGV"}, {get_wasm_interrupt_signal_mem}, {0})
  \/ Installing(1)
  \/ Sigint

SpecGuests == InitIgn /\ [][NextGuests]_vars

\* One guest thread entering modules whose ranges overlap, inside at most one
\* catch_unsafe_unwind with either breakpoint map, taking SIGTRAP and SIGSEGV at
\* every instruction address; a second thread entering modules of its own.
NextProbe ==
  \/ stack[1] = <<>> /\ \E bk \in BreakpointMaps : catch_unsafe_unwind(1, bk)
  \/ \E signum \in {"SIGTRAP", "SIGSEGV"}, ip \in Addrs :
       signal_trap_handler(1, signum, "other", ip)
  \/ sigreturn(1)
  \/ catch_unsafe_unwind_err(1)
  \/ caller_resumes(1)
  \/ EnteredModules(1, OverlappingVersions, MaxNested)
  \/ EnteredModules(2, CodeVersions, MaxVersions)
  \/ Installing(1)

SpecProbe == InitIgn /\ [][NextProbe]_vars

\* #[cfg(target_arch = "x86_64")] and #[cfg(not(target_arch = "x86_64"))]
Archs == {"x86_64", "aarch64"}

\* A build for either target architecture.
InitAlloc == InitWith(PrevDispositions, Archs)

\* Host code calling allocate_and_run with every size and closure.
NextAlloc ==
  \E size \in AllocSizes, v \in AllocValues : allocate_and_run_call(size, v)

SpecAlloc == InitAlloc /\ [][NextAlloc]_vars

\* The kernel delivering signals with every context, on every target.
NextDecode ==
  \/ \E os \in {"linux", "freebsd", "macos"}, hot \in 0..31, a \in Addrs,
        b \in {0, MaxAddr}, fp \in BOOLEAN, addr \in {0, MaxAddr} :
       get_fault_info_call(os, UContext(hot, a, b, fp, addr))
  \/ fault_info_dropped

SpecDecode == InitWith({"SigIgn"}, Archs) /\ [][NextDecode]_vars

\* One thread nesting with_ctx and catch_unsafe_unwind calls in any order, each
\* left by a return or by a host function's begin_unsafe_unwind.
NextCtx ==
  \/ Unwinding(1)
  \/ \E ctx \in Ctxs : with_ctx(1, ctx)
  \/ with_ctx_returns(1)

SpecCtx == InitIgn /\ [][NextCtx]_vars

(* ------------------------------- claims --------------------------------- *)
\* C1: for any nesting of catch_unsafe_unwind calls on a thread and whichever way
\* each call ends, every entry has exactly one exit (the entries not yet exited
\* are exactly the live activations, the slot's jump buffer is the innermost live
\* activation, and no jump enters an activation that has exited), and at each
\* exit the slot holds the frame that was in it at entry.
C1_OneExitRestoresFrame ==
  \A t \in Threads :
    /\ h.open[t] = Len(stack[t])
    /\ UNWIND[t].some => UNWIND[t].jmpbuf = Len(stack[t])
    /\ proc # "ub"
    /\ result[t].kind # "None" => result[t].restored

\* An inner call has just returned Err inside an outer call whose frame carries a
\* breakpoint map: the outer frame is back in the slot.
C1_Witness ==
  /\ result[1].kind = "Err"
  /\ pc[1] = "caught"
  /\ Len(stack[1]) = 1
  /\ UNWIND[1] = FreshFrame(1, "bk")
  /\ result[1].restored

\* C2: the thread-local unwind slot is non-empty exactly while the thread is
\* inside the dynamic scope of at least one catch_unsafe_unwind call.
C2_SlotIffInScope ==
  \A t \in Threads : UNWIND[t].some <=> Len(stack[t]) > 0

\* The outermost call has just returned Err: no activation is live, the slot is empty.
C2_Witness ==
  /\ result[1].kind = "Err"
  /\ pc[1] = "caught"
  /\ stack[1] = <<>>
  /\ ~UNWIND[1].some

\* C3: catch_unsafe_unwind returns Ok(v) exactly when f returned v and Err(e)
\* exactly when begin_unsafe_unwind(e) jumped to it, e being the error passed;
\* when control re-enters at the recorded point the payload is present, and
\* outside that moment the payload of the frame in the slot is empty.
C3_ResultMatchesEnd ==
  \A t \in Threads :
    /\ result[t].kind = "Ok" <=> result[t].how = "ret"
    /\ result[t].kind = "Err" <=> result[t].how = "unwind"
    /\ result[t].val = result[t].arg
    /\ result[t].kind = "Ok" => result[t].val \in RetVals
    /\ result[t].kind = "Err" => result[t].val \notin RetVals \cup {NoPayload}
    /\ pc[t] = "landed" => UNWIND[t].some /\ UNWIND[t].payload # NoPayload
    /\ pc[t] # "landed" => UNWIND[t].payload = NoPayload

\* An inner call returned the error a host function raised; the outer frame in the
\* slot has an empty payload.
C3_Witness ==
  /\ result[1].kind = "Err"
  /\ result[1].val = <<"User", 2>>
  /\ UNWIND[1].some
  /\ UNWIND[1].payload = NoPayload

\* C4: whenever catch_unsafe_unwind returns Err(e), was_sigint_triggered_fault()
\* read right after is true if and only if e is an InstanceImage of a sentinel
\* fault caused by SIGINT (here only sigint_handler arms the sentinel, so every
\* InstanceImage is one).
C4_FlagIffSigintImage ==
  \A t \in Threads :
    result[t].kind = "Err" => (result[t].sigint <=> result[t].val = InstanceImage)

\* C5: a guest inside catch_unsafe_unwind that takes the sentinel fault after a
\* SIGINT is unwound with InstanceImage and the thread-local flag set, the
\* sentinel is read-write and interrupt_delivered false when the dispatcher
\* unwinds, and catch_unsafe_unwind returns that Err(InstanceImage) with
\* was_sigint_triggered_fault() true.
C5_SigintSuspends ==
  /\ [][\A t \in Threads :
          (pc[t] = "swap" /\ pc'[t] # "swap") =>
             /\ pc'[t] = "landed"
             /\ UNWIND'[t].payload = InstanceImage
             /\ WAS_SIGINT_TRIGGERED'[t]
             /\ INTERRUPT_SIGNAL_MEM' = "RW"
             /\ ~INTERRUPT_SIGNAL_DELIVERED']_vars
  /\ [](\A t \in Threads :
          (result[t].kind = "Err" /\ result[t].val = InstanceImage) => result[t].sigint)

\* The catch has just returned Err(InstanceImage) with the flag set, the sentinel is
\* disarmed and the SIGINT consumed.
C5_Witness ==
  /\ result[1].kind = "Err"
  /\ result[1].val = InstanceImage
  /\ result[1].sigint
  /\ INTERRUPT_SIGNAL_MEM = "RW"
  /\ ~INTERRUPT_SIGNAL_DELIVERED
  /\ h.sigints = 1

\* C6: after ensure_sighandler, whatever the previous SIGINT disposition, a SIGINT
\* that arrives while interrupt_delivered is still set aborts the process with the
\* diagnostic; the sentinel is not armed again and the previous handler not called.
C6_SecondSigintAborts ==
  [][(h'.sigints = h.sigints + 1 /\ INSTALL_SIGHANDLER = "done"
       /\ INTERRUPT_SIGNAL_DELIVERED) =>
        /\ proc' = "aborted"
        /\ INTERRUPT_SIGNAL_MEM' = INTERRUPT_SIGNAL_MEM
        /\ sigint_pc' = sigint_pc
        /\ h'.prevCalls = h.prevCalls]_vars

\* C7: interrupt_delivered goes false -> true only in the SIGINT handler and
\* true -> false only when the dispatcher consumes a sentinel fault; after a
\* sentinel fault has consumed it, a later SIGINT does not end the process but
\* sets the flag and goes on to arm the sentinel.
C7_DeliveredCycle ==
  /\ [][(~INTERRUPT_SIGNAL_DELIVERED /\ INTERRUPT_SIGNAL_DELIVERED') =>
          h'.sigints = h.sigints + 1]_vars
  /\ [][(INTERRUPT_SIGNAL_DELIVERED /\ ~INTERRUPT_SIGNAL_DELIVERED') =>
          /\ h'.sigints = h.sigints
          /\ \E t \in Threads : pc[t] = "swap" /\ WAS_SIGINT_TRIGGERED'[t]]_vars
  /\ [][(h'.sigints = h.sigints + 1 /\ INSTALL_SIGHANDLER = "done"
          /\ ~INTERRUPT_SIGNAL_DELIVERED
          /\ \E t \in Threads : WAS_SIGINT_TRIGGERED[t]) =>
          /\ proc' = "running"
          /\ INTERRUPT_SIGNAL_DELIVERED'
          /\ sigint_pc'.arm = sigint_pc.arm + 1]_vars

\* C8: once ensure_sighandler has run, the core's handlers remain the installed
\* disposition of the five trap signals and of SIGINT.
C8_HandlersStayInstalled ==
  INSTALL_SIGHANDLER = "done" =>
    /\ \A s \in TrapSignals : disposition[s] = "signal_trap_handler"
    /\ disposition["SIGINT"] = "sigint_handler"

\* C9: for any number of ensure_sighandler calls, from one thread or racing from
\* several, the body of install_sighandler runs once: six sigaction calls in all,
\* and the captured previous SIGINT action is the disposition in force before the
\* first call, never the core's own sigint_handler.
C9_InstallOnce ==
  /\ h.installRuns <= 1
  /\ Cardinality(h.installers) <= 1
  /\ h.sigactions <= Cardinality(Signals)
  /\ SIGINT_SYS_HANDLER # "sigint_handler"
  /\ INSTALL_SIGHANDLER = "done" =>
       /\ h.sigactions = Cardinality(Signals)
       /\ SIGINT_SYS_HANDLER = h.init

\* The installation is done, the installing thread has called again and another
\* thread has called too.
C9_Witness ==
  /\ INSTALL_SIGHANDLER = "done"
  /\ \E t1, t2 \in Threads :
       /\ t1 # t2
       /\ t1 \in h.installers
       /\ {t1, t2} \subseteq h.ensured

\* C10: a SIGINT handler execution that does not abort chains the previously
\* installed disposition after arming, and the application's previous behaviour
\* is preserved: a previous handler function is called once, an ignored SIGINT
\* does nothing, a default disposition takes its default effect (the process is
\* terminated). Stated for the executions that chain after installation is done.
C10_PreviousBehaviourPreserved ==
  [][(sigint_pc'.chain = sigint_pc.chain - 1 /\ INSTALL_SIGHANDLER = "done") =>
        /\ h.init \in {"Handler", "SigAction"} =>
             (h'.prevCalls = h.prevCalls + 1 /\ proc' = "running")
        /\ h.init = "SigIgn" => (h'.prevCalls = h.prevCalls /\ proc' = "running")
        /\ h.init = "SigDfl" => proc' = "killed"]_vars

\* C11: a fault that no breakpoint callback handled and that is not a sentinel
\* suspension (SIGTRAP with no callback at IP included) is unwound, never
\* returned to the guest: with TrapCode{code} if and only if some active
\* CodeVersion has an exception table, holds IP in [base, base + total_size) and
\* maps IP - base to code, and with FailedWithNoError otherwise.
C11_UnclassifiedFaultUnwinds ==
  \A t \in Threads :
    LET f == fault[t]
        vs == CURRENT_CODE_VERSIONS[t]
        out == Callback(UNWIND[t].breakpoints, f.ip)
        decoded == InlineBreakpointScan(vs, 1, f.ip).decoded
        handled == out[1] # "absent" /\ (decoded \/ f.signum = "SIGTRAP")
        codes == {e[2] : e \in
                   UNION {{x \in get_exception_table(vs[i].module)[2] :
                             /\ get_exception_table(vs[i].module)[1]
                             /\ f.ip >= vs[i].base
                             /\ f.ip < vs[i].base + vs[i].total_size
                             /\ x[1] = f.ip - vs[i].base} : i \in DOMAIN vs}}
    IN (/\ f.signum # "None"
        /\ proc = "running"
        /\ ~handled
        /\ ~IsSuspendSignal(f.signum, f.faulting_addr)) =>
          /\ pc[t] = "landed"
          /\ codes # {} => \E c \in codes : UNWIND[t].payload = TrapCode(c)
          /\ codes = {} => UNWIND[t].payload = FailedWithNoError

\* C12: a fault that reaches Phase 2 is handled as a suspension exactly when its
\* signal is SIGSEGV or SIGBUS and its faulting address is the sentinel page
\* (SIGFPE, SIGILL and SIGTRAP never are); a suspension disarms the sentinel,
\* clears interrupt_delivered, sets the thread-local flag exactly when
\* interrupt_delivered was set, and unwinds with InstanceImage whatever the
\* exception tables hold at IP.
C12_SuspensionIffSentinelFault ==
  /\ [](\A t \in Threads :
          (fault[t].phase >= 2 /\ proc = "running") =>
            ((\/ pc[t] \in {"clear", "swap"}
              \/ (pc[t] = "landed" /\ UNWIND[t].payload = InstanceImage))
             <=> (/\ fault[t].signum \in {"SIGSEGV", "SIGBUS"}
                  /\ fault[t].faulting_addr = "sentinel")))
  /\ [][\A t \in Threads :
          (pc[t] = "clear" /\ pc'[t] # "clear") =>
             (pc'[t] = "swap" /\ INTERRUPT_SIGNAL_MEM' = "RW")]_vars
  /\ [][\A t \in Threads :
          (pc[t] = "swap" /\ pc'[t] # "swap") =>
             /\ pc'[t] = "landed"
             /\ UNWIND'[t].payload = InstanceImage
             /\ ~INTERRUPT_SIGNAL_DELIVERED'
             /\ WAS_SIGINT_TRIGGERED'[t] = INTERRUPT_SIGNAL_DELIVERED]_vars

\* A SIGSEGV at the sentinel page, armed by host code with no SIGINT delivered, at
\* an IP for which an active version's exception table has a code: the dispatcher
\* has unwound with InstanceImage, the flag is not set and the page is read-write.
C12_Witness ==
  /\ pc[1] = "landed"
  /\ UNWIND[1].payload = InstanceImage
  /\ fault[1].signum = "SIGSEGV"
  /\ fault[1].faulting_addr = "sentinel"
  /\ ExceptionCode(CURRENT_CODE_VERSIONS[1], 1, fault[1].ip)[1]
  /\ ~WAS_SIGINT_TRIGGERED[1]
  /\ h.sigints = 0
  /\ INTERRUPT_SIGNAL_MEM = "RW"

\* C13: when a breakpoint callback returns Err(E), for an inline breakpoint
\* decoded in Phase 1 or for a SIGTRAP looked up in Phase 2, the guest is not
\* resumed: the dispatcher unwinds with exactly E (never TrapCode,
\* FailedWithNoError or InstanceImage) and the catch_unsafe_unwind landed in
\* returns Err(E).
C13_CallbackErrorIsReturned ==
  /\ [](\A t \in Threads :
          LET f == fault[t]
              out == Callback(UNWIND[t].breakpoints, f.ip)
              decoded == InlineBreakpointScan(CURRENT_CODE_VERSIONS[t], 1, f.ip).decoded
          IN (/\ f.signum # "None"
              /\ proc = "running"
              /\ out[1] = "Err"
              /\ (decoded \/ f.signum = "SIGTRAP")) =>
                /\ pc[t] = "landed"
                /\ UNWIND[t].payload = out[2]
                /\ out[2] \in UserErrors)
  /\ [][\A t \in Threads :
          (pc[t] = "landed" /\ pc'[t] # "landed") =>
             /\ pc'[t] = "caught"
             /\ result'[t].kind = "Err"
             /\ result'[t].val = UNWIND[t].payload]_vars

\* A SIGILL at an inline breakpoint whose callback returned Err: the dispatcher
\* has unwound from Phase 1 with the callback's error.
C13_Witness ==
  /\ pc[1] = "landed"
  /\ fault[1].signum = "SIGILL"
  /\ fault[1].phase = 1
  /\ Callback(UNWIND[1].breakpoints, fault[1].ip)[1] = "Err"
  /\ UNWIND[1].payload = <<"User", 1>>

\* C14: when IP lies in an active CodeVersion whose module decodes an inline
\* breakpoint of size m at IP and the callback registered at IP returns Ok, the
\* handler returns without unwinding, the context IP is the old IP plus m,
\* Phase 2 and Phase 3 have not run (the thread-local flag, the sentinel and
\* interrupt_delivered are as they were) and the frame's payload stays empty.
C14_InlineBreakpointResumes ==
  /\ [](\A t \in Threads :
          LET f == fault[t]
              out == Callback(UNWIND[t].breakpoints, f.ip)
              scan == InlineBreakpointScan(CURRENT_CODE_VERSIONS[t], 1, f.ip)
          IN (/\ f.signum # "None"
              /\ proc = "running"
              /\ scan.decoded
              /\ out[1] = "Ok") =>
                /\ pc[t] = "sigreturn"
                /\ f.ctx_ip = f.ip + scan.magic_size
                /\ scan.magic_size > 0
                /\ f.phase = 1
                /\ UNWIND[t].some
                /\ UNWIND[t].payload = NoPayload)
  /\ [][\A t \in Threads :
          (pc[t] = "run" /\ pc'[t] = "sigreturn" /\ fault'[t].phase = 1) =>
             UNCHANGED <<UNWIND, stack, WAS_SIGINT_TRIGGERED, INTERRUPT_SIGNAL_MEM,
                         INTERRUPT_SIGNAL_DELIVERED, proc>>]_vars

\* A SIGSEGV at the inline breakpoint of address 0, whose callback returned Ok:
\* the handler has returned with the context IP at 2 and the payload empty.
C14_Witness ==
  /\ pc[1] = "sigreturn"
  /\ fault[1].signum = "SIGSEGV"
  /\ fault[1].ip = 0
  /\ fault[1].ctx_ip = 2
  /\ Callback(UNWIND[1].breakpoints, 0)[1] = "Ok"
  /\ UNWIND[1].payload = NoPayload

\* C15 as stated: on SIGTRAP with a callback registered at the faulting IP in the
\* active breakpoint map that returns Ok, the handler returns without unwinding
\* and leaves the context IP, the unwind frame, the sentinel protection and
\* interrupt_delivered unchanged.
C15_SigtrapCallbackResumes ==
  /\ [](\A t \in Threads :
          LET f == fault[t]
              out == Callback(UNWIND[t].breakpoints, f.ip)
          IN (/\ f.signum = "SIGTRAP"
              /\ proc = "running"
              /\ out[1] = "Ok") =>
                /\ pc[t] = "sigreturn"
                /\ f.ctx_ip = f.ip
                /\ UNWIND[t].payload = NoPayload)
  /\ [][\A t \in Threads :
          (pc[t] = "run" /\ pc'[t] = "sigreturn" /\ fault'[t].signum = "SIGTRAP") =>
             UNCHANGED <<UNWIND, stack, INTERRUPT_SIGNAL_MEM,
                         INTERRUPT_SIGNAL_DELIVERED, proc>>]_vars

\* C15 for the faults it holds for: on SIGTRAP at an IP where Phase 1 decodes no
\* inline breakpoint, with a callback registered at IP that returns Ok, the
\* handler returns from Phase 2 without unwinding and leaves the context IP, the
\* unwind frame, the sentinel protection and interrupt_delivered unchanged; the
\* guest goes on and catch_unsafe_unwind can still return Ok.
C15_SigtrapCallbackResumesPhase2 ==
  /\ [](\A t \in Threads :
          LET f == fault[t]
              out == Callback(UNWIND[t].breakpoints, f.ip)
              decoded == InlineBreakpointScan(CURRENT_CODE_VERSIONS[t], 1, f.ip).decoded
          IN (/\ f.signum = "SIGTRAP"
              /\ proc = "running"
              /\ ~decoded
              /\ out[1] = "Ok") =>
                /\ pc[t] = "sigreturn"
                /\ f.ctx_ip = f.ip
                /\ f.phase = 2
                /\ UNWIND[t].some
                /\ UNWIND[t].payload = NoPayload)
  /\ [][\A t \in Threads :
          (pc[t] = "run" /\ pc'[t] = "sigreturn" /\ fault'[t].phase = 2) =>
             UNCHANGED <<UNWIND, stack, INTERRUPT_SIGNAL_MEM,
                         INTERRUPT_SIGNAL_DELIVERED, proc>>]_vars
  /\ [][\A t \in Threads :
          (pc[t] = "sigreturn" /\ pc'[t] # "sigreturn") =>
             (pc'[t] = "run" /\ UNCHANGED <<UNWIND, stack>>)]_vars

\* A SIGTRAP at address 0, where no active version decodes an inline breakpoint
\* and the map's callback returned Ok: the handler has returned from Phase 2 with
\* the context IP still 0, inside a catch_unsafe_unwind that is still running.
C15_Witness ==
  /\ pc[1] = "sigreturn"
  /\ fault[1].signum = "SIGTRAP"
  /\ fault[1].phase = 2
  /\ fault[1].ip = 0
  /\ fault[1].ctx_ip = 0
  /\ Len(stack[1]) > 0
  /\ UNWIND[1].payload = NoPayload

\* C16: for the sentinel page, from any protection: arming then disarming leaves
\* it PROT_READ|PROT_WRITE, arming twice is arming once, disarming twice is
\* disarming once, and after any sequence of arm and disarm calls (by host code,
\* by sigint_handler, by the dispatcher) the protection is the one the last call
\* asked for.
C16_LastCallDecidesProtection ==
  /\ \A p \in {"RW", "NONE"} :
       /\ mprotect(mprotect(p, set_wasm_interrupt), clear_wasm_interrupt) = "RW"
       /\ mprotect(mprotect(p, set_wasm_interrupt), set_wasm_interrupt)
            = mprotect(p, set_wasm_interrupt)
       /\ mprotect(mprotect(p, clear_wasm_interrupt), clear_wasm_interrupt)
            = mprotect(p, clear_wasm_interrupt)
       /\ mprotect(p, set_wasm_interrupt) = "NONE"
       /\ mprotect(p, clear_wasm_interrupt) = "RW"
  /\ h.prot = "set" => INTERRUPT_SIGNAL_MEM = "NONE"
  /\ h.prot = "clear" => INTERRUPT_SIGNAL_MEM = "RW"
  /\ h.prot = "none" => INTERRUPT_SIGNAL_MEM = "RW"

\* The dispatcher has disarmed the page a SIGINT and then host code had armed:
\* the page is read-write.
C16_Witness ==
  /\ pc[1] = "swap"
  /\ h.sigints > 0
  /\ INTERRUPT_SIGNAL_DELIVERED
  /\ h.prot = "clear"
  /\ INTERRUPT_SIGNAL_MEM = "RW"

\* C17: with several guest threads and every interleaving of the steps of
\* sigint_handler (set interrupt_delivered, arm) with those of the dispatchers
\* (disarm, swap interrupt_delivered to false), each SIGINT is attributed to at
\* most one sentinel-fault dispatch: a thread's flag is set only by the step that
\* takes interrupt_delivered from true to false, interrupt_delivered is set only
\* by a SIGINT, and the threads whose flag is set are never more than the SIGINTs.
C17_OneAttributionPerSigint ==
  /\ [][\A t \in Threads :
          (~WAS_SIGINT_TRIGGERED[t] /\ WAS_SIGINT_TRIGGERED'[t]) =>
             /\ INTERRUPT_SIGNAL_DELIVERED
             /\ ~INTERRUPT_SIGNAL_DELIVERED'
             /\ \A u \in Threads \ {t} :
                  WAS_SIGINT_TRIGGERED'[u] = WAS_SIGINT_TRIGGERED[u]]_vars
  /\ [][(~INTERRUPT_SIGNAL_DELIVERED /\ INTERRUPT_SIGNAL_DELIVERED') =>
          h'.sigints = h.sigints + 1]_vars
  /\ [](Cardinality({t \in Threads : WAS_SIGINT_TRIGGERED[t]}) <= h.sigints)

\* Two threads took the sentinel fault of one SIGINT and both were unwound with
\* InstanceImage: the flag is set on one of them only.
C17_Witness ==
  /\ h.sigints = 1
  /\ pc[1] = "landed"
  /\ pc[2] = "landed"
  /\ UNWIND[1].payload = InstanceImage
  /\ UNWIND[2].payload = InstanceImage
  /\ WAS_SIGINT_TRIGGERED[1]
  /\ ~WAS_SIGINT_TRIGGERED[2]

\* C18 as stated: a call of allocate_and_run with a size that is a multiple of
\* 16, at least 4096 and at most 1 MiB invokes f exactly once and returns f's
\* value; a call with any other size fails an assertion with f not invoked.
C18_AllocateAndRun ==
  alloc # NoAlloc =>
    /\ (alloc.size % 16 = 0 /\ alloc.size >= 4096 /\ alloc.size <= TRAP_STACK_SIZE) =>
         (~alloc.asserted /\ alloc.calls = 1 /\ alloc.ret = alloc.f)
    /\ (alloc.size % 16 # 0 \/ alloc.size < 4096) =>
         (alloc.asserted /\ alloc.calls = 0)

\* C18, amended: on every target a call of allocate_and_run with a size that is
\* a multiple of 16, at least 4096 and at most 1 MiB invokes f exactly once and
\* returns f's value; on x86_64 a call with a size below 4096 or not a multiple
\* of 16 fails an assertion with f not invoked; on every other target a call
\* with any size invokes f exactly once, returns its value and asserts nothing.
C18_AllocateAndRunByArch ==
  alloc # NoAlloc =>
    /\ (alloc.size % 16 = 0 /\ alloc.size >= 4096 /\ alloc.size <= TRAP_STACK_SIZE) =>
         (~alloc.asserted /\ alloc.calls = 1 /\ alloc.ret = alloc.f)
    /\ (ARCH = "x86_64" /\ (alloc.size % 16 # 0 \/ alloc.size < 4096)) =>
         (alloc.asserted /\ alloc.calls = 0 /\ alloc.ret = NoPayload)
    /\ ARCH # "x86_64" =>
         (~alloc.asserted /\ alloc.calls = 1 /\ alloc.ret = alloc.f)

\* On x86_64 a call with a size above 4096 that is not a multiple of 16 failed
\* the assertion.
C18_Witness ==
  /\ ARCH = "x86_64"
  /\ alloc.size = 4104
  /\ alloc.asserted
  /\ alloc.calls = 0

\* C19: a begin_unsafe_unwind on a thread whose unwind slot is empty panics
\* before anything else: no jump (stack and position unchanged), no payload
\* stored, no result produced, and nothing runs after it; a thread lands at a
\* setjmp point, and a catch_unsafe_unwind returns Err, only from a slot that
\* was occupied and with a payload stored in it.
C19_UnwindOutsideScopeIsFatal ==
  /\ [][\A t \in Threads :
          \A e \in UserErrors \cup {InstanceImage, FailedWithNoError} :
            (begin_unsafe_unwind(t, e) /\ ~UNWIND[t].some) =>
               /\ proc' = "panicked"
               /\ UNCHANGED <<UNWIND, stack, pc, result>>]_vars
  /\ [][proc # "panicked"]_vars
  /\ [][\A t \in Threads :
          /\ (pc'[t] = "landed" /\ pc[t] # "landed") =>
                (UNWIND[t].some /\ UNWIND'[t].payload # NoPayload)
          /\ UNWIND'[t].payload # UNWIND[t].payload =>
                (UNWIND[t].some \/ UNWIND'[t].payload = NoPayload)
          /\ (result'[t] # result[t] /\ result'[t].kind = "Err") =>
                (pc[t] = "landed" /\ UNWIND[t].some
                   /\ UNWIND[t].payload = result'[t].val)]_vars

\* Host code outside every catch_unsafe_unwind called begin_unsafe_unwind: the
\* process panicked with the slot still empty, no position changed and no
\* result produced.
C19_Witness ==
  /\ proc = "panicked"
  /\ ~UNWIND[1].some
  /\ UNWIND[1].payload = NoPayload
  /\ stack[1] = <<>>
  /\ pc[1] = "run"
  /\ fault[1] = NoFault
  /\ result[1].kind # "Err"

\* C20: on every path of signal_trap_handler the handler performs no heap
\* allocation: no fault is being handled, or has been turned into an unwind,
\* with an allocation made by the handler (the alternate stack of
\* allocate_and_run, a Box::new of the result).
C20_HandlersDoNotAllocate ==
  \A t \in Threads : ~fault[t].heap

\* C21: when a fault was dispatched on a thread of which at least two active
\* code versions contain the IP, and the most recently pushed of them has an
\* inline-breakpoint size that fits before its end, that version decides:
\* Phase 1 handled the fault exactly if that version decodes an inline
\* breakpoint at IP, and the context IP was advanced by that version's size.
C21_ProbeIsLifo ==
  \A t \in Threads :
    (pc[t] \in {"sigreturn", "landed"} /\ fault[t].signum # "None") =>
      LET vs == CURRENT_CODE_VERSIONS[t]
          ip == fault[t].ip
          In == {i \in 1..Len(vs) :
                   ip >= vs[i].base /\ ip < vs[i].base + vs[i].total_size}
      IN Cardinality(In) >= 2 =>
           LET top == vs[CHOOSE i \in In : \A j \in In : j <= i]
               ms == get_inline_breakpoint_size(top.module)
           IN (ms[1] /\ ip + ms[2] <= top.base + top.total_size) =>
                /\ fault[t].phase = 1 <=> read_inline_breakpoint(top.module, ip)
                /\ fault[t].phase = 1 => fault[t].ctx_ip = ip + ms[2]

\* C22: when Phase 1 handled a fault (an inline breakpoint was decoded), the
\* version that decoded it is the first one of the scan whose range contains
\* the IP: that version has an inline-breakpoint size, the size fits before its
\* end, it decodes at IP and the context IP was advanced by its size. A first
\* version in range that has no size, or whose size does not fit, ends the scan.
C22_ScanStopsAtFirstInRange ==
  \A t \in Threads :
    (pc[t] \in {"sigreturn", "landed"} /\ fault[t].phase = 1) =>
      LET vs == CURRENT_CODE_VERSIONS[t]
          ip == fault[t].ip
          In == {i \in 1..Len(vs) :
                   ip >= vs[i].base /\ ip < vs[i].base + vs[i].total_size}
          first == vs[CHOOSE i \in In : \A j \in In : i <= j]
          ms == get_inline_breakpoint_size(first.module)
      IN /\ In # {}
         /\ ms[1]
         /\ ip + ms[2] <= first.base + first.total_size
         /\ read_inline_breakpoint(first.module, ip)
         /\ fault[t].ctx_ip = ip + ms[2]

\* C23: every fault that reaches Phase 2 resets the thread-local flag first:
\* the step that dispatches a fault into Phase 2 leaves the flag false whatever
\* it was, the flag is false while a suspension is before its swap (the swap
\* done, a handler that panics for want of an unwind frame stays in place), the
\* swap sets it exactly if interrupt_delivered was set, and after a
\* handler execution that reached Phase 2 for a fault that is no suspension
\* was_sigint_triggered_fault() is false.
C23_Phase2ResetsFlag ==
  /\ [][\A t \in Threads :
          /\ (fault[t].phase = 0 /\ fault'[t].phase \in {2, 3}) =>
                ~WAS_SIGINT_TRIGGERED'[t]
          /\ (pc[t] = "swap" /\ pc'[t] # "swap") =>
                (WAS_SIGINT_TRIGGERED'[t] <=> INTERRUPT_SIGNAL_DELIVERED)]_vars
  /\ [](\A t \in Threads :
          /\ (pc[t] \in {"clear", "swap"} /\ proc = "running") =>
                ~was_sigint_triggered_fault(t)
          /\ (pc[t] \in {"landed", "sigreturn"} /\ fault[t].phase \in {2, 3}
               /\ ~IsSuspendSignal(fault[t].signum, fault[t].faulting_addr)) =>
                ~was_sigint_triggered_fault(t))

\* A SIGINT was delivered and its sentinel fault consumed on thread 1, which set
\* the flag; a later SIGFPE on the thread has been classified and unwound, and
\* the flag is false.
C23_Witness ==
  /\ proc = "running"
  /\ h.sigints = 1
  /\ h.prot = "clear"
  /\ ~INTERRUPT_SIGNAL_DELIVERED
  /\ pc[1] = "landed"
  /\ fault[1].signum = "SIGFPE"
  /\ fault[1].phase = 3
  /\ ~was_sigint_triggered_fault(1)

\* C24: the per-thread CodeVersion sequence is a stack. From every sequence a
\* thread can hold: a pop after a push returns the pushed version and leaves the
\* sequence as it was, two pushes and two pops return the versions in reverse
\* order and leave the sequence as it was, a pop of the empty sequence returns
\* None and leaves it empty. A thread's sequence changes only by that thread's
\* own push (one version appended) or pop (the last one removed), never in a
\* step of the dispatcher, and a thread that has pushed nothing gets no Phase 1
\* outcome and no trap code from the versions of another thread.
C24_CodeVersionsAreAStack ==
  /\ [](\A t \in Threads :
          LET vec == CURRENT_CODE_VERSIONS[t]
          IN /\ \A v, w \in OverlappingVersions :
                  /\ vec_pop(vec_push(vec, v)) = [ret |-> v, rest |-> vec]
                  /\ vec_pop(vec_push(vec_push(vec, v), w)) =
                       [ret |-> w, rest |-> vec_push(vec, v)]
                  /\ vec_pop(vec_pop(vec_push(vec_push(vec, v), w)).rest) =
                       [ret |-> v, rest |-> vec]
             /\ vec_pop(<<>>) = [ret |-> "None", rest |-> <<>>]
             /\ (Len(vec) = 0 /\ pc[t] \in {"landed", "sigreturn"}) =>
                  /\ fault[t].phase # 1
                  /\ fault[t].phase = 3 => UNWIND[t].payload = FailedWithNoError)
  /\ [][\A t \in Threads :
          LET vec == CURRENT_CODE_VERSIONS[t]
          IN /\ CURRENT_CODE_VERSIONS'[t] # vec =>
                  /\ pc[t] = "run" /\ pc'[t] = "run"
                  /\ fault'[t] = fault[t]
                  /\ \/ \E v \in OverlappingVersions :
                          CURRENT_CODE_VERSIONS'[t] = Append(vec, v)
                     \/ /\ Len(vec) > 0
                        /\ CURRENT_CODE_VERSIONS'[t] = SubSeq(vec, 1, Len(vec) - 1)
                  /\ \A u \in Threads \ {t} :
                       CURRENT_CODE_VERSIONS'[u] = CURRENT_CODE_VERSIONS[u]
             /\ fault'[t] # fault[t] =>
                  CURRENT_CODE_VERSIONS' = CURRENT_CODE_VERSIONS]_vars

\* Thread 2 has entered module m1, which has an inline breakpoint at address 0
\* and an exception table; thread 1 has entered none, took a SIGTRAP at address
\* 0 and was unwound by Phase 3 without a trap code.
C24_Witness ==
  /\ Len(CURRENT_CODE_VERSIONS[2]) = 1
  /\ CURRENT_CODE_VERSIONS[2][1].module = "m1"
  /\ CURRENT_CODE_VERSIONS[1] = <<>>
  /\ pc[1] = "landed"
  /\ fault[1].signum = "SIGTRAP"
  /\ fault[1].ip = 0
  /\ fault[1].phase = 3
  /\ UNWIND[1].payload = FailedWithNoError

\* C25: on every context the aarch64 decoders of Linux and FreeBSD return the
\* same FaultInfo, with x0->RAX, x1->RCX, x2->RDX, x3->RBX, x5->RBP, x6->RSI,
\* x7->RDI, x8..x15->R8..R15 and x28->RSP; every decoder (aarch64 and x86_64)
\* fills all 16 GPR slots, so read_stack finds RSP; the aarch64 decoders leave
\* the 16 XMM slots None.
C25_Aarch64DecodersAgree ==
  fault_info.os # "None" =>
    LET c == fault_info.ucontext
        info == fault_info.info
        linux == get_fault_info_linux_aarch64(c)
        freebsd == get_fault_info_freebsd_aarch64(c)
        from == [RAX |-> 0, RCX |-> 1, RDX |-> 2, RBX |-> 3, RBP |-> 5, RSI |-> 6,
                 RDI |-> 7, R8 |-> 8, R9 |-> 9, R10 |-> 10, R11 |-> 11, R12 |-> 12,
                 R13 |-> 13, R14 |-> 14, R15 |-> 15, RSP |-> 28]
    IN /\ linux = freebsd
       /\ \A i \in 1..16 :
            /\ linux.known_registers[i - 1] = <<TRUE, c.x[from[GPR[i]]]>>
            /\ info.known_registers[i - 1][1]
       /\ read_stack_is_some(info)
       /\ \A i \in 16..31 : ~linux.known_registers[i][1] /\ ~freebsd.known_registers[i][1]
       /\ ARCH = "aarch64" =>
            /\ info = linux
            /\ \A i \in 16..31 : info.known_registers[i] = <<FALSE, 0>>

\* The FreeBSD aarch64 decoder was given a context in which only x5 holds 1:
\* RBP is 1 and every other GPR 0.
C25_Witness ==
  /\ ARCH = "aarch64"
  /\ fault_info.os = "freebsd"
  /\ fault_info.ucontext.x[5] = 1
  /\ \A i \in 0..30 : i # 5 => fault_info.ucontext.x[i] = 0
  /\ fault_info.info.known_registers[5] = <<TRUE, 1>>
  /\ fault_info.info.known_registers[4] = <<TRUE, 0>>

\* C26: when a thread inside catch_unsafe_unwind takes a fault at an IP where
\* Phase 1 decodes an inline breakpoint of size m and the frame's breakpoint map
\* is None or has no callback at IP, the handler advances the context IP by m
\* and returns to the guest: no unwind, no Phase 2 (the thread-local flag, the
\* sentinel and interrupt_delivered are untouched), the frame and its payload
\* unchanged, and the guest resumes with no result produced.
C26_BreakpointWithoutCallbackIsSwallowed ==
  /\ [][\A t \in Threads :
          LET scan == InlineBreakpointScan(CURRENT_CODE_VERSIONS[t], 1, fault'[t].ip)
          IN (fault[t].phase = 0 /\ fault'[t].phase # 0 /\ scan.decoded
               /\ UNWIND[t].some
               /\ Callback(UNWIND[t].breakpoints, fault'[t].ip)[1] = "absent") =>
                /\ pc'[t] = "sigreturn"
                /\ fault'[t].phase = 1
                /\ fault'[t].ctx_ip = fault'[t].ip + scan.magic_size
                /\ proc' = "running"
                /\ UNCHANGED <<UNWIND, stack, result, WAS_SIGINT_TRIGGERED,
                               INTERRUPT_SIGNAL_MEM, INTERRUPT_SIGNAL_DELIVERED>>]_vars
  /\ [][\A t \in Threads :
          pc[t] = "sigreturn" =>
             (pc'[t] \in {"sigreturn", "run"} /\ UNCHANGED <<UNWIND, stack, result>>)]_vars

\* Inside a catch_unsafe_unwind without a breakpoint map, a SIGILL at address 1
\* of module m1 (an inline breakpoint of 2 bytes) is about to return to the
\* guest at address 3; nothing was stored in the frame.
C26_Witness ==
  /\ pc[1] = "sigreturn"
  /\ UNWIND[1].some
  /\ UNWIND[1].breakpoints = "None"
  /\ UNWIND[1].payload = NoPayload
  /\ fault[1].signum = "SIGILL"
  /\ fault[1].ip = 1
  /\ fault[1].phase = 1
  /\ fault[1].ctx_ip = 3

\* C27: with nested catch_unsafe_unwind calls on a thread, a jump lands in the
\* innermost active call (no activation is dropped) and that call alone returns:
\* its return takes one activation off, gives Err of the stored payload, and
\* puts the enclosing call's frame back with an empty payload; the enclosing f
\* then goes on. While the inner call is active only its breakpoint map counts:
\* when the inner map is None no callback outcome occurs (no Phase 1 unwind, no
\* Phase 2 return, no Phase 2 unwind of a SIGTRAP), whatever the outer map holds.
C27_InnermostCatchTakesUnwind ==
  /\ [][\A t \in Threads :
          /\ (pc[t] # "landed" /\ pc'[t] = "landed") =>
                /\ stack'[t] = stack[t]
                /\ UNWIND[t].jmpbuf = Len(stack[t])
                /\ UNWIND'[t].payload # NoPayload
          /\ (pc[t] = "landed" /\ pc'[t] = "caught") =>
                /\ stack'[t] = SubSeq(stack[t], 1, Len(stack[t]) - 1)
                /\ result'[t].kind = "Err"
                /\ result'[t].val = UNWIND[t].payload
                /\ UNWIND'[t] = stack[t][Len(stack[t])].entry
                /\ UNWIND'[t].payload = NoPayload
                /\ Len(stack'[t]) >= 1 =>
                     (UNWIND'[t].some /\ UNWIND'[t].jmpbuf = Len(stack'[t]))
          /\ (pc[t] = "caught" /\ pc'[t] # "caught") =>
                (pc'[t] = "run" /\ stack'[t] = stack[t] /\ UNWIND'[t] = UNWIND[t])]_vars
  /\ [](\A t \in Threads :
          (pc[t] \in {"landed", "sigreturn"} /\ fault[t].phase # 0
             /\ UNWIND[t].some /\ UNWIND[t].breakpoints = "None") =>
               /\ ~(fault[t].phase = 1 /\ pc[t] = "landed")
               /\ ~(fault[t].phase = 2 /\ pc[t] = "sigreturn")
               /\ ~(fault[t].phase = 2 /\ pc[t] = "landed"
                      /\ fault[t].signum = "SIGTRAP"))

\* Inside a catch_unsafe_unwind whose map has a callback at address 0, a nested
\* catch_unsafe_unwind without a map took a SIGTRAP at address 0: the callback
\* was not invoked and Phase 3 unwound to the inner call, the outer one still
\* active below it.
C27_Witness ==
  /\ Len(stack[1]) = 2
  /\ stack[1][2].entry.breakpoints = "bk"
  /\ UNWIND[1].breakpoints = "None"
  /\ UNWIND[1].jmpbuf = 2
  /\ UNWIND[1].payload = FailedWithNoError
  /\ pc[1] = "landed"
  /\ fault[1].signum = "SIGTRAP"
  /\ fault[1].ip = 0
  /\ fault[1].phase = 3

\* The with_ctx steps of a thread: the entry, the normal return of cb, and a
\* begin_unsafe_unwind jump that leaves at least one with_ctx activation.
C28_Enters(t) == Len(with_ctx_calls'[t]) = Len(with_ctx_calls[t]) + 1
C28_Returns(t) ==
  /\ Len(with_ctx_calls'[t]) = Len(with_ctx_calls[t]) - 1
  /\ pc'[t] = "run"
C28_Jumps(t) ==
  /\ pc[t] # "landed" /\ pc'[t] = "landed"
  /\ Len(with_ctx_calls'[t]) < Len(with_ctx_calls[t])
C28_Innermost(t) == with_ctx_calls[t][Len(with_ctx_calls[t])]

\* with_ctx sets the pointer to ctx for the duration of cb and restores the
\* previous pointer when cb returns normally, nested calls in LIFO order.
C28_SetAndRestored ==
  /\ [][\A t \in Threads :
         /\ C28_Enters(t) =>
              /\ CURRENT_CTX'[t] = with_ctx_calls'[t][Len(with_ctx_calls'[t])].ctx
              /\ with_ctx_calls'[t][Len(with_ctx_calls'[t])].old = CURRENT_CTX[t]
              /\ SubSeq(with_ctx_calls'[t], 1, Len(with_ctx_calls[t])) = with_ctx_calls[t]
         /\ C28_Returns(t) =>
              /\ CURRENT_CTX'[t] = C28_Innermost(t).old
              /\ with_ctx_calls'[t] =
                   SubSeq(with_ctx_calls[t], 1, Len(with_ctx_calls[t]) - 1)
         /\ CURRENT_CTX'[t] # CURRENT_CTX[t] => C28_Enters(t) \/ C28_Returns(t)]_vars
  /\ [](\A t \in Threads :
         /\ (with_ctx_calls[t] # <<>> /\ ~C28_Innermost(t).left) =>
              CURRENT_CTX[t] = C28_Innermost(t).ctx
         /\ \A i \in 2..Len(with_ctx_calls[t]) :
              ~with_ctx_calls[t][i - 1].left =>
                with_ctx_calls[t][i].old = with_ctx_calls[t][i - 1].ctx)

\* C28 as stated: with_ctx(ctx, cb) sets the pointer to ctx for the duration of
\* cb and restores the previous pointer when cb returns normally, nested calls
\* in LIFO order; when cb is left by a begin_unsafe_unwind jump to an enclosing
\* catch_unsafe_unwind the pointer is not restored and equals the ctx of every
\* with_ctx call left by the jump, up to and after the catch returning Err.
C28_CtxOfEveryCallLeft ==
  /\ C28_SetAndRestored
  /\ [][\A t \in Threads :
         /\ C28_Jumps(t) =>
              \A i \in DOMAIN with_ctx_calls[t] :
                with_ctx_calls[t][i].depth >= UNWIND[t].jmpbuf =>
                  CURRENT_CTX'[t] = with_ctx_calls[t][i].ctx
         /\ (pc[t] = "landed" /\ pc'[t] = "caught") =>
              CURRENT_CTX'[t] = CURRENT_CTX[t]]_vars

\* C28: with_ctx(ctx, cb) sets the pointer to ctx for the duration of cb and
\* restores the previous pointer when cb returns normally, nested calls in LIFO
\* order; when cb is left by a begin_unsafe_unwind jump to an enclosing
\* catch_unsafe_unwind the pointer is not restored: the jump and the catch
\* returning Err leave it as it was, which is the ctx of the innermost with_ctx
\* call left by the jump unless a with_ctx nested in that one's cb had itself
\* been left by an earlier jump.
C28_CtxNotRestoredOnJump ==
  /\ C28_SetAndRestored
  /\ [][\A t \in Threads :
         /\ C28_Jumps(t) =>
              /\ CURRENT_CTX'[t] = CURRENT_CTX[t]
              /\ ~C28_Innermost(t).left => CURRENT_CTX'[t] = C28_Innermost(t).ctx
         /\ (pc[t] = "landed" /\ pc'[t] = "caught") =>
              CURRENT_CTX'[t] = CURRENT_CTX[t]]_vars

\* A catch_unsafe_unwind has returned Err to code outside every with_ctx, and
\* the pointer is still the ctx of a with_ctx the jump left.
C28_Witness ==
  /\ pc[1] = "caught"
  /\ result[1].kind = "Err"
  /\ stack[1] = <<>>
  /\ with_ctx_calls[1] = <<>>
  /\ CURRENT_CTX[1] = "ctx1"

\* No sigint_handler and no sentinel-fault dispatch is between its first and its
\* last access of interrupt_delivered and the sentinel page.
C29_NoHandlerInProgress ==
  /\ proc = "running"
  /\ sigint_pc.arm = 0
  /\ sigint_pc.chain = 0
  /\ \A t \in Threads : pc[t] \notin {"clear", "swap"}

\* C29: with the dispatcher as the only caller of clear_wasm_interrupt and
\* SIGINT handler steps interleaved in every way with the sentinel-fault
\* dispatches of the guest threads, whenever no handler is in progress and
\* interrupt_delivered is true the sentinel page is armed (PROT_NONE).
C29_DeliveredImpliesArmed ==
  (C29_NoHandlerInProgress /\ INTERRUPT_SIGNAL_DELIVERED) => INTERRUPT_SIGNAL_MEM = "NONE"

\* A dispatch has consumed one SIGINT, the next one was delivered and armed the
\* sentinel again, and no handler is in progress.
C29_Witness ==
  /\ C29_NoHandlerInProgress
  /\ INTERRUPT_SIGNAL_DELIVERED
  /\ INTERRUPT_SIGNAL_MEM = "NONE"
  /\ h.sigints = 2
  /\ \E t \in Threads : result[t].kind = "Err" /\ result[t].sigint

\* C30: with sigint_handler as the only caller of set_wasm_interrupt and SIGINT
\* handler steps interleaved in every way with the sentinel-fault dispatches of
\* the guest threads, whenever no handler is in progress and
\* interrupt_delivered is false the sentinel page is disarmed (readable).
C30_NotDeliveredImpliesDisarmed ==
  (C29_NoHandlerInProgress /\ ~INTERRUPT_SIGNAL_DELIVERED) => INTERRUPT_SIGNAL_MEM = "RW"

====
